---------------------------- MODULE Spec2Model ----------------------------
(* Executive portfolio dashboard (src/portfolio_dashboard.py): the         *)
(* threshold table, the traffic-light classifier, the risk assessment and  *)
(* the session state that holds the uploaded projects.                     *)
(*                                                                         *)
(* Numbers.  Python floats are modelled by integers counting hundredths:   *)
(* a percentage of 15 is 1500, a ratio of 1.1 is 110, a POC of 83.5 is     *)
(* 8350.  Monetary amounts are whole currency units.  A quotient the code  *)
(* computes is kept exact as a pair <<numerator, denominator>> with a      *)
(* positive denominator, in hundredths, and compared by cross              *)
(* multiplication; float rounding is not modelled.                         *)
EXTENDS Integers, Sequences, FiniteSets, TLC

VARIABLES
    thresholds,     \* EXECUTIVE_THRESHOLDS, the module-level table
    projects_data,  \* st.session_state.projects_data: project no. -> entry
    tl_call,        \* the last call of get_traffic_light_status, or NoCall
    ra_call,        \* the last direct call of assess_project_risks, or NoCall
    parse_call,     \* the last parse of a cost-breakdown sheet, or NoCall
    pv_call,        \* the last call of calculate_period_variance, or NoCall
    ev_call,        \* the last call of calculate_earned_value_metrics, or NoCall
    cm_call,        \* the last call of calculate_contingency_metrics, or NoCall
    mv_call,        \* the last call of calculate_margin_variability_metrics,
                    \* or NoCall
    vm_call,        \* the last call of get_poc_velocity_status_with_maturity,
                    \* or NoCall
    os_call,        \* the last call of get_overall_project_status, or NoCall
    row_call,       \* the last row built by render_executive_project_table,
                    \* or NoCall
    ps_call         \* the runs of create_enhanced_portfolio_summary so far,
                    \* or NoCall

\* the calls of the functions that derive a project's metrics
metric_calls == <<parse_call, pv_call, ev_call, cm_call, mv_call>>

\* the calls of the functions that derive a status or a summary
status_calls == <<vm_call, os_call, row_call, ps_call>>

vars == <<thresholds, projects_data, tl_call, ra_call, metric_calls,
          status_calls>>

NoCall == [called |-> FALSE]

\* none of the metric, status or summary functions has been called
NoMetricCalls ==
    /\ parse_call = NoCall
    /\ pv_call = NoCall
    /\ ev_call = NoCall
    /\ cm_call = NoCall
    /\ mv_call = NoCall
    /\ vm_call = NoCall
    /\ os_call = NoCall
    /\ row_call = NoCall
    /\ ps_call = NoCall

\* ------------------------------------------------------------------------
\* Bounds of the model

\* cut-offs of the classifier's bands range over -1 .. MaxCut - 1
MaxCut == 4
\* number of distinct project numbers a session can hold
MaxProjects == 2
\* most work packages of a project handed to the risk assessment
MaxWP == 4
\* the amounts handed to calculate_period_variance range over
\* -MaxAmount .. MaxAmount
MaxAmount == 5
\* most work packages handed to calculate_contingency_metrics
MaxContingencyWP == 2

\* ------------------------------------------------------------------------
\* Exact quotients

Abs(x) == IF x < 0 THEN -x ELSE x

\* the quotient num/den (den > 0) scaled to hundredths
Quot(num, den) == <<num * 100, den>>
\* a value already in hundredths, as a quotient
Whole(h) == <<h, 1>>
QLt(q, h) == q[1] < h * q[2]
QGt(q, h) == q[1] > h * q[2]
QEq(q, h) == q[1] = h * q[2]

\* ------------------------------------------------------------------------
\* Threshold table

DefaultThresholds ==
    [ cm2_margin |->
        [excellent |-> 1500, good |-> 1000, warning |-> 500, critical |-> 0],
      cm1_margin |->
        [excellent |-> 2500, good |-> 2000, warning |-> 1500, critical |-> 1000],
      poc_velocity |->
        [excellent |-> 1000, good |-> 500, warning |-> 200, critical |-> 0],
      cash_flow_efficiency |->
        [excellent |-> 110, good |-> 95, warning |-> 85, critical |-> 75],
      revenue_growth |->
        [excellent |-> 1500, good |-> 500, stable |-> -200, warning |-> -500,
         critical |-> -1500],
      committed_vs_budget |->
        [excellent |-> 90, good |-> 100, warning |-> 110, critical |-> 120],
      cost_variance |->
        [excellent |-> -500, good |-> 500, warning |-> 1500, critical |-> 2500],
      schedule_performance |->
        [excellent |-> 11000, good |-> 9500, warning |-> 8000, critical |-> 7000],
      cost_performance_index |->
        [excellent |-> 110, good |-> 100, warning |-> 90, critical |-> 80],
      schedule_performance_index |->
        [excellent |-> 110, good |-> 100, warning |-> 90, critical |-> 80] ]

Metrics == DOMAIN DefaultThresholds

\* the metrics the code classifies with reverse=True (lower is better)
LowerIsBetter == {"committed_vs_budget", "cost_variance"}

\* ------------------------------------------------------------------------
\* Traffic-light classifier

Status(icon, label, tier) == [icon |-> icon, label |-> label, tier |-> tier]

\* mutant: the comparisons are strict
get_traffic_light_status_strict(value, band, reverse) ==
    IF reverse
    THEN IF value < band.excellent THEN Status("green", "Excellent", "excellent")
         ELSE IF value < band.good THEN Status("green", "Good", "good")
         ELSE IF value < band.warning THEN Status("yellow", "Warning", "warning")
         ELSE Status("red", "Critical", "critical")
    ELSE IF value > band.excellent THEN Status("green", "Excellent", "excellent")
         ELSE IF value > band.good THEN Status("green", "Good", "good")
         ELSE IF "stable" \in DOMAIN band /\ value > band.stable
              THEN Status("blue", "Stable", "stable")
         ELSE IF value > band.warning THEN Status("yellow", "Warning", "warning")
         ELSE Status("red", "Critical", "critical")

\* mutant: the warning cut-off is tested before the stable one
get_traffic_light_status_swapped(value, band, reverse) ==
    IF reverse
    THEN IF value <= band.excellent THEN Status("green", "Excellent", "excellent")
         ELSE IF value <= band.good THEN Status("green", "Good", "good")
         ELSE IF value <= band.warning THEN Status("yellow", "Warning", "warning")
         ELSE Status("red", "Critical", "critical")
    ELSE IF value >= band.excellent THEN Status("green", "Excellent", "excellent")
         ELSE IF value >= band.good THEN Status("green", "Good", "good")
         ELSE IF value >= band.warning THEN Status("yellow", "Warning", "warning")
         ELSE IF "stable" \in DOMAIN band /\ value >= band.stable
              THEN Status("blue", "Stable", "stable")
         ELSE Status("red", "Critical", "critical")

get_traffic_light_status(value, band, reverse) ==
    IF reverse
    THEN IF value <= band.excellent THEN Status("green", "Excellent", "excellent")
         ELSE IF value <= band.good THEN Status("green", "Good", "good")
         ELSE IF value <= band.warning THEN Status("yellow", "Warning", "warning")
         ELSE Status("red", "Critical", "critical")
    ELSE IF value >= band.excellent THEN Status("green", "Excellent", "excellent")
         ELSE IF value >= band.good THEN Status("green", "Good", "good")
         ELSE IF "stable" \in DOMAIN band /\ value >= band.stable
              THEN Status("blue", "Stable", "stable")
         ELSE IF value >= band.warning THEN Status("yellow", "Warning", "warning")
         ELSE Status("red", "Critical", "critical")

\* ------------------------------------------------------------------------
\* Small pure helpers

RECURSIVE SumOver(_, _)
\* sum(f(x) for x in seq), with f given as a function over the elements
SumOver(seq, f) ==
    IF seq = <<>> THEN 0 ELSE f[Head(seq)] + SumOver(Tail(seq), f)

RECURSIVE Concat(_)
\* the sequences of a sequence, joined in order
Concat(seqs) ==
    IF seqs = <<>> THEN <<>> ELSE Head(seqs) \o Concat(Tail(seqs))

Range(seq) == {seq[i] : i \in 1..Len(seq)}

\* POC velocity: the plain difference of two percentages
calculate_poc_velocity(poc_current, poc_previous) == poc_current - poc_previous

\* mutant: the difference is divided by previous_value, sign included
calculate_period_variance_signed(current_value, previous_value) ==
    IF previous_value = 0
    THEN IF current_value > 0 THEN Whole(10000) ELSE Whole(0)
    ELSE IF previous_value > 0
         THEN Quot((current_value - previous_value) * 100, previous_value)
         ELSE Quot((previous_value - current_value) * 100, -previous_value)

\* period-over-period variance in percent, as an exact quotient
calculate_period_variance(current_value, previous_value) ==
    IF previous_value = 0
    THEN IF current_value > 0 THEN Whole(10000) ELSE Whole(0)
    ELSE Quot((current_value - previous_value) * 100, Abs(previous_value))

\* mutant: the same expectation at every maturity
calculate_expected_poc_velocity_flat(poc_current) == 1000

\* expected POC velocity for the maturity of the project
calculate_expected_poc_velocity(poc_current) ==
    IF poc_current >= 9500 THEN 100
    ELSE IF poc_current >= 9000 THEN 200
    ELSE IF poc_current >= 8000 THEN 300
    ELSE IF poc_current >= 6000 THEN 500
    ELSE IF poc_current >= 4000 THEN 700
    ELSE 1000

\* velocity / expected compared with 1.2, 0.8 and 0.5
get_poc_velocity_status_with_maturity(poc_velocity, poc_current) ==
    LET expected_velocity == calculate_expected_poc_velocity(poc_current)
        velocity_ratio ==
            IF expected_velocity > 0
            THEN <<poc_velocity * 100, expected_velocity>>
            ELSE Whole(0)
    IN  IF ~QLt(velocity_ratio, 120)
        THEN Status("green", "Excellent", "excellent")
        ELSE IF ~QLt(velocity_ratio, 80) THEN Status("green", "Good", "good")
        ELSE IF ~QLt(velocity_ratio, 50)
             THEN Status("yellow", "Warning", "warning")
        ELSE Status("red", "Critical", "critical")

\* ------------------------------------------------------------------------
\* Risk assessment
\*
\* A project record carries the fields the assessment reads:
\*   cost_analysis       [cm2_pct_fct_n, committed_ratio, cost_variance_pct]
\*   revenues            [contract_price, poc_n, poc_n1, revenues_n, revenues_n1]
\*                       (the n_ptd and n1_ptd columns of the revenue sheet)
\*   cash_flow_quarterly the fct_n value of each quarter, in sheet order
\*   work_packages       the work packages, in sheet order, each
\*                       [description, as_sold, fct_n, variance_pct]
\*   malformed           "none", or the first field whose value is not of the
\*                       type the code expects (it makes the code raise where
\*                       the field is first used)
\* A description is the set of the tokens "risk" and "contingenc" that occur
\* in its lower-cased text.

Finding(type, severity, description, impact, recommendation) ==
    [type |-> type, severity |-> severity, description |-> description,
     impact |-> impact, recommendation |-> recommendation]

\* mutant: one of the two tokens is enough
IsRiskContingency_either(wp) ==
    "risk" \in wp.description \/ "contingenc" \in wp.description

IsRiskContingency(wp) ==
    "risk" \in wp.description /\ "contingenc" \in wp.description

\* rule 1
MarginRisk(project_data, T) ==
    LET cm2_pct == project_data.cost_analysis.cm2_pct_fct_n
        cm2_excellent == T.cm2_margin.excellent
        cm2_good == T.cm2_margin.good
        cm2_warning == T.cm2_margin.warning
    IN  IF cm2_pct < cm2_warning
        THEN << Finding("Margin Risk", "Critical", "CM2 margin critically low",
                        "High",
                        "Immediate cost reduction and revenue optimization required") >>
        ELSE IF cm2_pct < cm2_good
        THEN << Finding("Margin Risk", "High", "CM2 margin below target",
                        "Medium",
                        "Review cost structure and identify optimization opportunities") >>
        ELSE IF cm2_pct < cm2_excellent
        THEN << Finding("Margin Risk", "Medium", "CM2 margin - room for improvement",
                        "Low",
                        "Continue monitoring and seek margin enhancement opportunities") >>
        ELSE << >>

\* rule 2
CostCommitmentRisk(project_data) ==
    LET committed_ratio == project_data.cost_analysis.committed_ratio
    IN  IF committed_ratio > 120
        THEN << Finding("Cost Commitment", "Critical", "Severe cost overcommitment",
                        "High", "Emergency cost review and procurement controls") >>
        ELSE IF committed_ratio > 110
        THEN << Finding("Cost Commitment", "High", "High cost commitment",
                        "Medium", "Enhanced cost monitoring and approval processes") >>
        ELSE << >>

\* rule 3
CostVarianceRisk(project_data) ==
    LET cost_variance == project_data.cost_analysis.cost_variance_pct
    IN  IF cost_variance > 2500
        THEN << Finding("Cost Variance", "Critical", "Extreme cost variance",
                        "High", "Comprehensive cost baseline review required") >>
        ELSE IF cost_variance > 1500
        THEN << Finding("Cost Variance", "High", "High cost variance",
                        "Medium",
                        "Detailed variance analysis and corrective action plan") >>
        ELSE << >>

\* mutant: the rule fires on the maturity-adjusted status
ScheduleRisk_adjusted(project_data) ==
    LET poc_current == project_data.revenues.poc_n
        poc_previous == project_data.revenues.poc_n1
        poc_velocity == calculate_poc_velocity(poc_current, poc_previous)
    IN  IF get_poc_velocity_status_with_maturity(
               poc_velocity, poc_current).tier = "critical"
           /\ poc_current < 9000
        THEN << Finding("Schedule Risk", "High", "Low POC velocity", "Medium",
                        "Resource reallocation and schedule acceleration") >>
        ELSE << >>

\* rule 4
ScheduleRisk(project_data) ==
    LET poc_current == project_data.revenues.poc_n
        poc_previous == project_data.revenues.poc_n1
        poc_velocity == calculate_poc_velocity(poc_current, poc_previous)
    IN  IF poc_velocity < 200 /\ poc_current < 9000
        THEN << Finding("Schedule Risk", "High", "Low POC velocity", "Medium",
                        "Resource reallocation and schedule acceleration") >>
        ELSE << >>

\* rule 5
CashFlowRisk(project_data) ==
    LET quarterly_data == project_data.cash_flow_quarterly
        negative_quarters ==
            Cardinality({i \in 1..Len(quarterly_data) : quarterly_data[i] < 0})
        total_quarters == Len(quarterly_data)
    IN  IF quarterly_data # << >> /\ negative_quarters * 10 > total_quarters * 3
        THEN << Finding("Cash Flow", "High", "Multiple negative cash flow quarters",
                        "High",
                        "Cash flow optimization and milestone acceleration") >>
        ELSE << >>

\* rule 6
RevenueRisk(project_data) ==
    LET revenue_current == project_data.revenues.revenues_n
        revenue_previous == project_data.revenues.revenues_n1
        revenue_variance ==
            calculate_period_variance(revenue_current, revenue_previous)
    IN  IF QLt(revenue_variance, -1500)
        THEN << Finding("Revenue Risk", "Critical", "Significant revenue decline",
                        "High",
                        "Revenue recovery plan and stakeholder engagement") >>
        ELSE << >>

\* the risk-contingency packages of a project, in order
RiskContingencies(project_data) ==
    SelectSeq(project_data.work_packages, IsRiskContingency)

\* remaining contingency as a percentage of the contract value
ContingencyPercentage(project_data) ==
    LET risk_contingencies == RiskContingencies(project_data)
        contract_value == project_data.revenues.contract_price
        total_risk_contingency ==
            SumOver(risk_contingencies,
                    [wp \in Range(risk_contingencies) |-> wp.fct_n])
    IN  IF contract_value > 0
        THEN Quot(total_risk_contingency * 100, contract_value)
        ELSE Whole(0)

\* contingency consumed as a percentage of the original contingency
ContingencyConsumption(project_data) ==
    LET risk_contingencies == RiskContingencies(project_data)
        total_risk_contingency ==
            SumOver(risk_contingencies,
                    [wp \in Range(risk_contingencies) |-> wp.fct_n])
        original_contingency ==
            SumOver(risk_contingencies,
                    [wp \in Range(risk_contingencies) |-> wp.as_sold])
    IN  IF original_contingency > 0
        THEN Quot((original_contingency - total_risk_contingency) * 100,
                  original_contingency)
        ELSE Whole(0)

\* mutant: the two adequacy tests of rule 7 are independent
ContingencyRisk_independent(project_data) ==
    LET contingency_percentage == ContingencyPercentage(project_data)
        contingency_consumption == ContingencyConsumption(project_data)
    IN  IF RiskContingencies(project_data) # << >>
        THEN (IF QLt(contingency_percentage, 100)
              THEN << Finding("Contingency Risk", "Medium",
                              "Insufficient risk contingency", "Medium",
                              "Review risk register and consider contingency replenishment") >>
              ELSE << >>)
             \o (IF QLt(contingency_percentage, 500)
                    /\ QGt(contingency_consumption, 8000)
                 THEN << Finding("Contingency Risk", "High", "Low contingency",
                                 "High",
                                 "Monitor emerging risks closely, prepare contingency plan") >>
                 ELSE << >>)
        ELSE << Finding("Contingency Risk", "High",
                        "No risk contingency identified in project structure",
                        "High",
                        "Establish risk contingency budget for unforeseen events") >>

\* rule 7
ContingencyRisk(project_data) ==
    LET contingency_percentage == ContingencyPercentage(project_data)
        contingency_consumption == ContingencyConsumption(project_data)
    IN  IF RiskContingencies(project_data) # << >>
        THEN IF QLt(contingency_percentage, 100)
             THEN << Finding("Contingency Risk", "Medium",
                             "Insufficient risk contingency", "Medium",
                             "Review risk register and consider contingency replenishment") >>
             ELSE IF QLt(contingency_percentage, 500)
                     /\ QGt(contingency_consumption, 8000)
             THEN << Finding("Contingency Risk", "High", "Low contingency", "High",
                             "Monitor emerging risks closely, prepare contingency plan") >>
             ELSE << >>
        ELSE << Finding("Contingency Risk", "High",
                        "No risk contingency identified in project structure",
                        "High",
                        "Establish risk contingency budget for unforeseen events") >>

\* rule 8
WPPerformanceRisk(project_data) ==
    LET work_packages == project_data.work_packages
        IsHighVariance(wp) == wp.variance_pct > 1500 /\ ~IsRiskContingency(wp)
        high_variance_wps == SelectSeq(work_packages, IsHighVariance)
    IN  IF Len(work_packages) > 0
           /\ Len(high_variance_wps) * 10 > Len(work_packages) * 3
        THEN << Finding("WP Performance Risk", "High",
                        "work packages exceeding budget by >15%", "High",
                        "Systemic issue - review estimation or execution processes") >>
        ELSE << >>

\* rule 9
FinancialBufferRisk(project_data) ==
    LET cm2_pct == project_data.cost_analysis.cm2_pct_fct_n
        contingency_percentage == ContingencyPercentage(project_data)
    IN  IF RiskContingencies(project_data) # << >>
           /\ QLt(contingency_percentage, 300)
           /\ cm2_pct < 1000
        THEN << Finding("Financial Buffer Risk", "Critical",
                        "Low contingency combined with thin margins", "High",
                        "Project has minimal financial buffer for risks") >>
        ELSE << >>

AssessmentError ==
    Finding("Assessment Error", "Medium", "Risk assessment incomplete", "Low",
            "Manual risk review recommended")

\* mutant: the handler returns the error finding alone
OnAssessmentFailure_alone(risk_factors) == << AssessmentError >>

\* the except branch: the findings so far, then the error finding
OnAssessmentFailure(risk_factors) == Append(risk_factors, AssessmentError)

\* the rule during which a malformed field makes the code raise (0: none).
\* The findings of the earlier rules are already appended by then; the rule
\* itself raises before its append.
FailingRule(malformed) ==
    CASE malformed = "none" -> 0
      [] malformed = "cost_analysis" -> 1
      [] malformed = "cm2_pct_fct_n" -> 1
      [] malformed = "committed_ratio" -> 2
      [] malformed = "cost_variance_pct" -> 3
      [] malformed = "cash_flow_quarterly" -> 5
      [] malformed = "work_packages" -> 7
      [] malformed = "variance_pct" -> 8

Malformations ==
    {"none", "cost_analysis", "cm2_pct_fct_n", "committed_ratio",
     "cost_variance_pct", "cash_flow_quarterly", "work_packages", "variance_pct"}

assess_project_risks(project_data, T) ==
    LET rules == << MarginRisk(project_data, T),
                    CostCommitmentRisk(project_data),
                    CostVarianceRisk(project_data),
                    ScheduleRisk(project_data),
                    CashFlowRisk(project_data),
                    RevenueRisk(project_data),
                    ContingencyRisk(project_data),
                    WPPerformanceRisk(project_data),
                    FinancialBufferRisk(project_data) >>
        failing == FailingRule(project_data.malformed)
    IN  IF failing = 0
        THEN Concat(rules)
        ELSE OnAssessmentFailure(Concat(SubSeq(rules, 1, failing - 1)))

\* ------------------------------------------------------------------------
\* Inputs of the classifier

Cutoffs == {c - 1 : c \in 0..MaxCut}
Values == {c - 2 : c \in 0..(MaxCut + 2)}

BandsWithoutStable == [{"excellent", "good", "warning", "critical"} -> Cutoffs]
BandsWithStable ==
    [{"excellent", "good", "stable", "warning", "critical"} -> Cutoffs]
Bands == BandsWithoutStable \cup BandsWithStable

\* ------------------------------------------------------------------------
\* Specification of the classifier: one call on any value and any band

Classify ==
    /\ ~tl_call.called
    /\ \E value \in Values, band \in Bands, reverse \in BOOLEAN :
          tl_call' = [called |-> TRUE, value |-> value, band |-> band,
                      reverse |-> reverse,
                      status |-> get_traffic_light_status(value, band, reverse)]
    /\ UNCHANGED <<thresholds, projects_data, ra_call, metric_calls,
                   status_calls>>

InitCalls ==
    /\ thresholds = DefaultThresholds
    /\ projects_data = <<>>
    /\ tl_call = NoCall
    /\ ra_call = NoCall
    /\ NoMetricCalls

NextClassify == Classify

SpecClassify == InitCalls /\ [][NextClassify]_vars


\* ------------------------------------------------------------------------
\* Threshold overrides and uploads (main, render_data_upload_page)

\* mutant: the critical cut-off follows the warning cut-off
UpdateThresholds_critical(T, cm2_excellent, cm2_good, cm2_warning) ==
    [T EXCEPT !.cm2_margin =
        [excellent |-> cm2_excellent, good |-> cm2_good,
         warning |-> cm2_warning, critical |-> cm2_warning]]

\* the sidebar's three number inputs written into the table
UpdateThresholds(T, cm2_excellent, cm2_good, cm2_warning) ==
    [T EXCEPT !.cm2_margin.excellent = cm2_excellent,
              !.cm2_margin.good = cm2_good,
              !.cm2_margin.warning = cm2_warning,
              !.cm2_margin.critical = 0]

\* what the parser stores for a project: its raw fields and, computed once
\* at the end of parsing, its risk register
parse_excel_template_v24(raw, T) ==
    [ cost_analysis |-> raw.cost_analysis,
      revenues |-> raw.revenues,
      cash_flow_quarterly |-> raw.cash_flow_quarterly,
      work_packages |-> raw.work_packages,
      malformed |-> raw.malformed,
      risk_factors |-> assess_project_risks(raw, T) ]

\* ------------------------------------------------------------------------
\* Inputs of the risk assessment

WorkPackage(description, as_sold, fct_n, variance_pct) ==
    [description |-> description, as_sold |-> as_sold, fct_n |-> fct_n,
     variance_pct |-> variance_pct]

\* four kinds of work package, each with the variance_pct the parser derives
\* from its amounts: on budget; over budget with "risk" alone in its
\* description; a contingency nearly used up; a contingency that grew
WPKinds ==
    << WorkPackage({}, 100, 100, 0),
       WorkPackage({"risk"}, 100, 120, 2000),
       WorkPackage({"risk", "contingenc"}, 200, 20, -9000),
       WorkPackage({"risk", "contingenc"}, 10, 100, 90000) >>

\* the order of the packages does not matter to any rule: one order each
WorkPackageInputs ==
    LET shapes == UNION {[1..n -> 1..Len(WPKinds)] : n \in 0..MaxWP}
        sorted == {k \in shapes :
                      \A i \in 1..Len(k), j \in 1..Len(k) :
                          i < j => k[i] <= k[j]}
    IN  {[i \in 1..Len(k) |-> WPKinds[k[i]]] : k \in sorted}

CostInputs ==
    {[cm2_pct_fct_n |-> cm2, committed_ratio |-> c[1],
      cost_variance_pct |-> c[2]] :
        cm2 \in {300, 700, 1100, 1600},
        c \in {<<100, 0>>, <<115, 2000>>, <<125, 3000>>}}

Revenues(contract_price, poc_n, poc_n1, revenues_n, revenues_n1) ==
    [contract_price |-> contract_price, poc_n |-> poc_n, poc_n1 |-> poc_n1,
     revenues_n |-> revenues_n, revenues_n1 |-> revenues_n1]

RevenueInputs ==
    { Revenues(1000, 5000, 4000, 100, 100),
      Revenues(1000, 8500, 8350, 80, 100),
      Revenues(1000, 8900, 8700, 85, 100),
      Revenues(10000, 9500, 9400, 100, 100),
      Revenues(0, 1000, 850, 100, 0) }

CashFlowInputs == { << >>, <<10, 10, -5>>, <<10, 10, 10, -5>> }

ProjectRecords ==
    [ cost_analysis : CostInputs,
      revenues : RevenueInputs,
      cash_flow_quarterly : CashFlowInputs,
      work_packages : WorkPackageInputs,
      malformed : Malformations ]

\* the records the uploads of the session draw from: what the parser yields
\* is well typed
UploadRecords ==
    [ cost_analysis : {c \in CostInputs : c.committed_ratio = 100},
      revenues : {Revenues(1000, 5000, 4000, 100, 100)},
      cash_flow_quarterly : {<< >>},
      work_packages : {<< >>},
      malformed : {"none"} ]

ThresholdInputs == {500, 1000, 1500}

\* the tables the risk assessment is called under: the defaults and one
\* override of the three CM2 cut-offs
RiskTables ==
    {DefaultThresholds, UpdateThresholds(DefaultThresholds, 2000, 1200, 800)}

ProjectNos == 1..MaxProjects

\* ------------------------------------------------------------------------
\* Specification of the session: overrides, uploads, clearing

SetThresholds ==
    /\ \E cm2_excellent \in ThresholdInputs, cm2_good \in ThresholdInputs,
          cm2_warning \in ThresholdInputs :
          thresholds' =
              UpdateThresholds(thresholds, cm2_excellent, cm2_good, cm2_warning)
    /\ UNCHANGED <<projects_data, tl_call, ra_call, metric_calls,
                   status_calls>>

Upload ==
    /\ \E project_no \in ProjectNos, raw \in UploadRecords :
          projects_data' =
              [n \in DOMAIN projects_data \cup {project_no} |->
                  IF n = project_no
                  THEN [data |-> parse_excel_template_v24(raw, thresholds)]
                  ELSE projects_data[n]]
    /\ UNCHANGED <<thresholds, tl_call, ra_call, metric_calls,
                   status_calls>>

ClearData ==
    /\ DOMAIN projects_data # {}
    /\ projects_data' = << >>
    /\ UNCHANGED <<thresholds, tl_call, ra_call, metric_calls,
                   status_calls>>

Init == InitCalls

Next == SetThresholds \/ Upload \/ ClearData

Spec == Init /\ [][Next]_vars

\* ------------------------------------------------------------------------
\* Specification of the risk assessment: one call on any record, under
\* either table

InitRisk ==
    /\ thresholds \in RiskTables
    /\ projects_data = << >>
    /\ tl_call = NoCall
    /\ ra_call = NoCall
    /\ NoMetricCalls

Assess ==
    /\ ~ra_call.called
    /\ \E project_data \in ProjectRecords :
          ra_call' = [called |-> TRUE, project_data |-> project_data,
                      risk_factors |->
                          assess_project_risks(project_data, thresholds)]
    /\ UNCHANGED <<thresholds, projects_data, tl_call, metric_calls,
                   status_calls>>

NextRisk == Assess

SpecRisk == InitRisk /\ [][NextRisk]_vars

\* ------------------------------------------------------------------------
\* Claims about the classifier

TierRank(tier) ==
    CASE tier = "excellent" -> 5
      [] tier = "good" -> 4
      [] tier = "stable" -> 3
      [] tier = "warning" -> 2
      [] tier = "critical" -> 1

HasStable(band) == "stable" \in DOMAIN band

\* C1: the tier returned is the one the cascade gives. Higher is better:
\* excellent iff value >= excellent; good iff not that and value >= good;
\* stable iff neither, the band has a stable cut-off and value >= stable;
\* warning iff none of these and value >= warning; critical otherwise.
\* Lower is better: the same with <= over excellent, good, warning, and the
\* stable cut-off is never used.
C1_Cascade ==
    tl_call.called =>
        LET v == tl_call.value
            b == tl_call.band
            t == tl_call.status.tier
        IN  IF tl_call.reverse
            THEN /\ (t = "excellent") <=> (v <= b.excellent)
                 /\ (t = "good") <=> (v > b.excellent /\ v <= b.good)
                 /\ (t = "warning") <=>
                        (v > b.excellent /\ v > b.good /\ v <= b.warning)
                 /\ (t = "critical") <=>
                        (v > b.excellent /\ v > b.good /\ v > b.warning)
                 /\ t # "stable"
            ELSE LET below == v < b.excellent /\ v < b.good
                     stable == HasStable(b) /\ v >= b.stable
                 IN  /\ (t = "excellent") <=> (v >= b.excellent)
                     /\ (t = "good") <=> (v < b.excellent /\ v >= b.good)
                     /\ (t = "stable") <=> (below /\ stable)
                     /\ (t = "warning") <=>
                            (below /\ ~stable /\ v >= b.warning)
                     /\ (t = "critical") <=>
                            (below /\ ~stable /\ v < b.warning)

\* a higher-is-better call answered "stable" although the value is also
\* above the warning cut-off
C1_Witness ==
    /\ tl_call.called
    /\ ~tl_call.reverse
    /\ tl_call.status.tier = "stable"
    /\ tl_call.value >= tl_call.band.warning

MonotoneBand(b) ==
    /\ b.excellent > b.good
    /\ b.good > b.warning
    /\ b.warning > b.critical
    /\ HasStable(b) => (b.good >= b.stable /\ b.stable >= b.warning)

\* C2: in higher-is-better mode, on a band with excellent > good > warning
\* > critical (a stable cut-off, if any, between good and warning), a value
\* at or above the excellent cut-off is excellent, and no smaller value gets
\* a better tier than the value classified.
C2_Monotone ==
    (tl_call.called /\ ~tl_call.reverse /\ MonotoneBand(tl_call.band)) =>
        /\ (tl_call.value >= tl_call.band.excellent)
              => tl_call.status.tier = "excellent"
        /\ \A v2 \in Values :
              v2 <= tl_call.value =>
                  TierRank(get_traffic_light_status(
                               v2, tl_call.band, FALSE).tier)
                      <= TierRank(tl_call.status.tier)

\* a monotone band with a stable cut-off, a value classified stable, and a
\* smaller value that falls to warning
C2_Witness ==
    /\ tl_call.called
    /\ ~tl_call.reverse
    /\ MonotoneBand(tl_call.band)
    /\ tl_call.status.tier = "stable"
    /\ \E v2 \in Values :
          /\ v2 < tl_call.value
          /\ get_traffic_light_status(v2, tl_call.band, FALSE).tier = "warning"


\* ------------------------------------------------------------------------
\* Claims about the session

\* C3: the risk register held for every stored project is what
\* assess_project_risks yields on the project's raw fields under the
\* threshold table as it is now.
C3_RegisterIsCurrent ==
    \A project_no \in DOMAIN projects_data :
        LET data == projects_data[project_no].data
        IN  data.risk_factors = assess_project_risks(data, thresholds)

HigherIsBetterMonotone(b) ==
    /\ b.excellent >= b.good
    /\ b.good >= b.warning
    /\ b.warning >= b.critical
    /\ HasStable(b) => (b.good >= b.stable /\ b.stable >= b.warning)

LowerIsBetterMonotone(b) ==
    /\ b.excellent <= b.good
    /\ b.good <= b.warning
    /\ b.warning <= b.critical

\* C4: the cut-offs of every metric of the table are monotonic in the
\* metric's polarity, in every state of the table.
C4_CutoffsMonotone ==
    \A m \in Metrics :
        IF m \in LowerIsBetter
        THEN LowerIsBetterMonotone(thresholds[m])
        ELSE HigherIsBetterMonotone(thresholds[m])

\* C5: whatever was overridden, the critical cut-off of cm2_margin is 0 and
\* the band of every other metric is its default.
C5_OverrideFrame ==
    /\ thresholds.cm2_margin.critical = 0
    /\ DOMAIN thresholds = Metrics
    /\ DOMAIN thresholds.cm2_margin = DOMAIN DefaultThresholds.cm2_margin
    /\ \A m \in Metrics \ {"cm2_margin"} : thresholds[m] = DefaultThresholds[m]
    /\ thresholds.cost_performance_index =
          [excellent |-> 110, good |-> 100, warning |-> 90, critical |-> 80]
    /\ thresholds.schedule_performance_index =
          [excellent |-> 110, good |-> 100, warning |-> 90, critical |-> 80]

\* an override has changed all three CM2 cut-offs it names
C5_Witness ==
    /\ thresholds.cm2_margin.excellent # DefaultThresholds.cm2_margin.excellent
    /\ thresholds.cm2_margin.good # DefaultThresholds.cm2_margin.good
    /\ thresholds.cm2_margin.warning # DefaultThresholds.cm2_margin.warning

\* ------------------------------------------------------------------------
\* Claims about the risk assessment

\* the severities of the findings of one type
SeveritiesOf(risk_factors, type) ==
    {risk_factors[i].severity :
        i \in {j \in 1..Len(risk_factors) : risk_factors[j].type = type}}

NumberOf(risk_factors, type) ==
    Cardinality({i \in 1..Len(risk_factors) : risk_factors[i].type = type})

\* the call assessed a well-typed record
WellTypedCall == ra_call.called /\ ra_call.project_data.malformed = "none"

HasBothTokens(wp) ==
    "risk" \in wp.description /\ "contingenc" \in wp.description

\* C6: every rule's finding is decided by the cut-offs of the table in
\* force: rule 1 by cm2_margin (below warning Critical, below good High,
\* below excellent Medium), rule 2 by committed_vs_budget (above critical
\* Critical, above warning High), rule 3 by cost_variance likewise, rule 4
\* by the warning cut-off of poc_velocity, rule 9 by the good cut-off of
\* cm2_margin.
C6_CutoffsFromTable ==
    WellTypedCall =>
        LET p == ra_call.project_data
            rf == ra_call.risk_factors
            cm2 == p.cost_analysis.cm2_pct_fct_n
            T == thresholds
            contingencies ==
                {i \in 1..Len(p.work_packages) : HasBothTokens(p.work_packages[i])}
        IN  /\ SeveritiesOf(rf, "Margin Risk") =
                  IF cm2 < T.cm2_margin.warning THEN {"Critical"}
                  ELSE IF cm2 < T.cm2_margin.good THEN {"High"}
                  ELSE IF cm2 < T.cm2_margin.excellent THEN {"Medium"}
                  ELSE {}
            /\ SeveritiesOf(rf, "Cost Commitment") =
                  IF p.cost_analysis.committed_ratio
                        > T.committed_vs_budget.critical THEN {"Critical"}
                  ELSE IF p.cost_analysis.committed_ratio
                        > T.committed_vs_budget.warning THEN {"High"}
                  ELSE {}
            /\ SeveritiesOf(rf, "Cost Variance") =
                  IF p.cost_analysis.cost_variance_pct
                        > T.cost_variance.critical THEN {"Critical"}
                  ELSE IF p.cost_analysis.cost_variance_pct
                        > T.cost_variance.warning THEN {"High"}
                  ELSE {}
            /\ (NumberOf(rf, "Schedule Risk") > 0) <=>
                  (/\ p.revenues.poc_n - p.revenues.poc_n1
                         < T.poc_velocity.warning
                   /\ p.revenues.poc_n < 9000)
            /\ (NumberOf(rf, "Financial Buffer Risk") > 0) <=>
                  (/\ contingencies # {}
                   /\ QLt(ContingencyPercentage(p), 300)
                   /\ cm2 < T.cm2_margin.good)

\* C7: a well-typed project none of whose work packages has both "risk" and
\* "contingenc" in its description gets exactly one Contingency Risk
\* finding, of severity High, recommending to establish a contingency budget.
C7_NoContingencyFinding ==
    (/\ WellTypedCall
     /\ \A i \in 1..Len(ra_call.project_data.work_packages) :
           ~HasBothTokens(ra_call.project_data.work_packages[i]))
    => LET rf == ra_call.risk_factors
           at == {i \in 1..Len(rf) : rf[i].type = "Contingency Risk"}
       IN  /\ Cardinality(at) = 1
           /\ \A i \in at :
                 /\ rf[i].severity = "High"
                 /\ rf[i].recommendation =
                        "Establish risk contingency budget for unforeseen events"

\* no contingency package, yet packages that mention "risk", and the
\* project is otherwise healthy or not: the finding is there
C7_Witness ==
    /\ WellTypedCall
    /\ Len(ra_call.project_data.work_packages) >= 2
    /\ \A i \in 1..Len(ra_call.project_data.work_packages) :
          /\ ~HasBothTokens(ra_call.project_data.work_packages[i])
          /\ "risk" \in ra_call.project_data.work_packages[i].description
    /\ NumberOf(ra_call.risk_factors, "Contingency Risk") = 1
    /\ NumberOf(ra_call.risk_factors, "Margin Risk") = 0

\* C8: the WP Performance Risk finding (High) is there exactly when the
\* packages over 15% variance that are not contingency packages are more
\* than 30% of the packages that are not contingency packages.
C8_ConcentrationOverNonContingency ==
    WellTypedCall =>
        LET wps == ra_call.project_data.work_packages
            others == {i \in 1..Len(wps) : ~HasBothTokens(wps[i])}
            high == {i \in others : wps[i].variance_pct > 1500}
        IN  /\ (NumberOf(ra_call.risk_factors, "WP Performance Risk") > 0)
                  <=> (Cardinality(high) * 10 > Cardinality(others) * 3)
            /\ SeveritiesOf(ra_call.risk_factors, "WP Performance Risk")
                  \subseteq {"High"}

\* C9: the Schedule Risk finding (High, at most one) is there exactly when
\* current POC - previous POC < 2 and current POC < 90; the maturity-adjusted
\* status plays no part.
C9_ScheduleRiskRaw ==
    WellTypedCall =>
        LET poc_current == ra_call.project_data.revenues.poc_n
            poc_previous == ra_call.project_data.revenues.poc_n1
            n == NumberOf(ra_call.risk_factors, "Schedule Risk")
        IN  /\ n = IF poc_current - poc_previous < 200 /\ poc_current < 9000
                   THEN 1 ELSE 0
            /\ SeveritiesOf(ra_call.risk_factors, "Schedule Risk")
                  \subseteq {"High"}

\* the rule fires for a project whose maturity-adjusted status is Warning
C9_Witness ==
    /\ WellTypedCall
    /\ NumberOf(ra_call.risk_factors, "Schedule Risk") = 1
    /\ get_poc_velocity_status_with_maturity(
           ra_call.project_data.revenues.poc_n
               - ra_call.project_data.revenues.poc_n1,
           ra_call.project_data.revenues.poc_n).tier = "warning"

\* the rule that appends the findings of a type
RuleOfType(type) ==
    CASE type = "Margin Risk" -> 1
      [] type = "Cost Commitment" -> 2
      [] type = "Cost Variance" -> 3
      [] type = "Schedule Risk" -> 4
      [] type = "Cash Flow" -> 5
      [] type = "Revenue Risk" -> 6
      [] type = "Contingency Risk" -> 7
      [] type = "WP Performance Risk" -> 8
      [] type = "Financial Buffer Risk" -> 9
      [] type = "Assessment Error" -> 10

\* C10: when the assessment fails, the list returned is the findings of the
\* rules that ran before the failing one, as the failure-free run gives
\* them and in that order, followed by one Assessment Error of severity
\* Medium, the only one of the list; a run that does not fail has no
\* Assessment Error.
C10_FailureKeepsFindings ==
    ra_call.called =>
        LET p == ra_call.project_data
            rf == ra_call.risk_factors
            full == assess_project_risks([p EXCEPT !.malformed = "none"],
                                         thresholds)
            Before(f) == RuleOfType(f.type) < FailingRule(p.malformed)
        IN  IF p.malformed = "none"
            THEN NumberOf(rf, "Assessment Error") = 0
            ELSE /\ Len(rf) >= 1
                 /\ rf[Len(rf)].type = "Assessment Error"
                 /\ rf[Len(rf)].severity = "Medium"
                 /\ NumberOf(rf, "Assessment Error") = 1
                 /\ SubSeq(rf, 1, Len(rf) - 1) = SelectSeq(full, Before)

\* a failure in the work-package rules after four findings were appended
C10_Witness ==
    /\ ra_call.called
    /\ ra_call.project_data.malformed = "variance_pct"
    /\ Len(ra_call.risk_factors) >= 5
    /\ ra_call.risk_factors[Len(ra_call.risk_factors)].type = "Assessment Error"

\* ------------------------------------------------------------------------
\* Specification of the period variance: one call on any two amounts

Amounts == (-MaxAmount)..MaxAmount

PeriodVariance ==
    /\ ~pv_call.called
    /\ \E current_value \in Amounts, previous_value \in Amounts :
          pv_call' = [called |-> TRUE, current_value |-> current_value,
                      previous_value |-> previous_value,
                      result |-> calculate_period_variance(current_value,
                                                           previous_value)]
    /\ UNCHANGED <<thresholds, projects_data, tl_call, ra_call, parse_call,
                   ev_call, cm_call, mv_call, status_calls>>

NextVariance == PeriodVariance

SpecVariance == InitCalls /\ [][NextVariance]_vars

\* C13: calculate_period_variance(current, previous) is 0 when previous = 0
\* and current = 0, 100 when previous = 0 and current > 0, 0 when
\* previous = 0 and current < 0, and (current - previous)/|previous| x 100
\* otherwise; so it is 0 when current = previous # 0, negative values
\* included.
C13_PeriodVariance ==
    pv_call.called =>
        LET c == pv_call.current_value
            p == pv_call.previous_value
            q == pv_call.result
        IN  /\ q[2] > 0
            /\ (p = 0 /\ c = 0) => QEq(q, 0)
            /\ (p = 0 /\ c > 0) => QEq(q, 10000)
            /\ (p = 0 /\ c < 0) => QEq(q, 0)
            /\ (p # 0) => q[1] * Abs(p) = (c - p) * 10000 * q[2]
            /\ (p # 0 /\ c = p) => QEq(q, 0)

\* a call with a negative previous value and a larger current value: the
\* variance is positive
C13_Witness ==
    /\ pv_call.called
    /\ pv_call.previous_value < 0
    /\ pv_call.current_value > pv_call.previous_value
    /\ QGt(pv_call.result, 0)

\* ------------------------------------------------------------------------
\* The cost-breakdown stage of the parser (parse_excel_template_v24, the
\* block on sheet 3_Cost_Breakdown and the margin calculations after it)
\*
\* A workbook carries what this stage reads:
\*   has_cost_sheet  whether sheet 3_Cost_Breakdown exists
\*   contract_value  Contract Price, n_ptd, of the revenue sheet (0 if none)
\*   selling_price   the first Selling Price row, per period, or NoRow
\*   ec_total        the Total EC row, per period (zeros if none)
\*   ic_total        the Total IC/IL row, per period (zeros if none)
\*   total           the TOTAL row [as_sold, committed, fct_n] (zeros if none)
\*   wp_rows         the work-package rows, in sheet order, each
\*                   [description, as_sold, committed, fct_n]
\* Amounts are whole currency units; percentages and ratios are exact
\* quotients in hundredths.

Periods == {"as_sold", "fct_n1", "fct_n"}

PerPeriod(as_sold, fct_n1, fct_n) ==
    [as_sold |-> as_sold, fct_n1 |-> fct_n1, fct_n |-> fct_n]

NoRow == [found |-> FALSE]

\* what the parser returns when it fails
None == [parsed |-> FALSE]

\* the work package stored for a row of the sheet
ParseWorkPackage(row) ==
    [ description |-> row.description,
      as_sold |-> row.as_sold,
      committed |-> row.committed,
      fct_n |-> row.fct_n,
      variance_pct |->
          IF row.as_sold > 0
          THEN calculate_period_variance(row.fct_n, row.as_sold)
          ELSE Whole(0),
      commitment_ratio |->
          IF row.as_sold > 0 THEN Quot(row.committed, row.as_sold)
          ELSE Whole(0),
      is_risk_contingency |-> IsRiskContingency(row) ]

\* the selling price of each period after the fallback to the contract
\* value
SellingPrices(workbook) ==
    IF workbook.selling_price.found
    THEN [p \in Periods |-> workbook.selling_price[p]]
    ELSE [p \in Periods |-> workbook.contract_value]

\* the margins of one period: left at their initial 0 unless the selling
\* price of the period is positive
MarginsOf(selling_price, ec, ic) ==
    IF selling_price > 0
    THEN [ cm1_value |-> selling_price - ec,
           cm1_pct |-> Quot((selling_price - ec) * 100, selling_price),
           cm2_value |-> selling_price - ec - ic,
           cm2_pct |-> Quot((selling_price - ec - ic) * 100, selling_price) ]
    ELSE [ cm1_value |-> 0, cm1_pct |-> Whole(0),
           cm2_value |-> 0, cm2_pct |-> Whole(0) ]

\* Without the sheet cost_analysis stays the empty dict, the read of
\* total_as_sold raises KeyError and the parser returns None.
parse_cost_breakdown(workbook) ==
    IF ~workbook.has_cost_sheet
    THEN None
    ELSE LET selling_price == SellingPrices(workbook)
             margins == [p \in Periods |->
                            MarginsOf(selling_price[p], workbook.ec_total[p],
                                      workbook.ic_total[p])]
         IN  [ parsed |-> TRUE,
               cost_analysis |->
                 [ selling_price_found |-> workbook.selling_price.found,
                   selling_price |-> selling_price,
                   ec_total |-> workbook.ec_total,
                   ic_total |-> workbook.ic_total,
                   cm1_value |-> [p \in Periods |-> margins[p].cm1_value],
                   cm1_pct |-> [p \in Periods |-> margins[p].cm1_pct],
                   cm2_value |-> [p \in Periods |-> margins[p].cm2_value],
                   cm2_pct |-> [p \in Periods |-> margins[p].cm2_pct],
                   total_as_sold |-> workbook.total.as_sold,
                   total_committed |-> workbook.total.committed,
                   total_fct_n |-> workbook.total.fct_n,
                   cost_variance_pct |->
                       IF workbook.total.found
                       THEN calculate_period_variance(workbook.total.fct_n,
                                                      workbook.total.as_sold)
                       ELSE Whole(0),
                   committed_ratio |->
                       IF workbook.total.as_sold > 0
                       THEN Quot(workbook.total.committed,
                                 workbook.total.as_sold)
                       ELSE Whole(0) ],
               work_packages |->
                 [i \in 1..Len(workbook.wp_rows) |->
                     ParseWorkPackage(workbook.wp_rows[i])] ]

\* ------------------------------------------------------------------------
\* Inputs of the cost-breakdown stage

SellingPriceRows ==
    {NoRow} \cup
    {[found |-> TRUE, as_sold |-> t[1], fct_n1 |-> t[2], fct_n |-> t[3]] :
        t \in {<<0, 0, 0>>, <<100, 100, 100>>, <<100, 0, 120>>}}

ECRows == {PerPeriod(0, 0, 0), PerPeriod(60, 60, 70)}

ICRows == {PerPeriod(0, 0, 0), PerPeriod(20, 25, 30)}

TotalRows ==
    {[found |-> t[1], as_sold |-> t[2], committed |-> t[3], fct_n |-> t[4]] :
        t \in {<<FALSE, 0, 0, 0>>, <<TRUE, 80, 88, 100>>, <<TRUE, 0, 0, 10>>}}

\* three kinds of work-package row: over budget; not sold but forecast and
\* committed; an empty risk contingency
WPRowKinds ==
    {[description |-> t[1], as_sold |-> t[2], committed |-> t[3],
      fct_n |-> t[4]] :
        t \in {<<{}, 100, 50, 120>>, <<{}, 0, 5, 10>>,
               <<{"risk", "contingenc"}, 0, 0, 0>>}}

Workbooks ==
    [ has_cost_sheet : BOOLEAN,
      contract_value : {0, 100},
      selling_price : SellingPriceRows,
      ec_total : ECRows,
      ic_total : ICRows,
      total : TotalRows,
      wp_rows : UNION {[1..n -> WPRowKinds] : n \in 0..MaxWP} ]

\* ------------------------------------------------------------------------
\* Specification of the cost-breakdown stage: one parse of any workbook

Parse ==
    /\ ~parse_call.called
    /\ \E workbook \in Workbooks :
          parse_call' = [called |-> TRUE, workbook |-> workbook,
                         result |-> parse_cost_breakdown(workbook)]
    /\ UNCHANGED <<thresholds, projects_data, tl_call, ra_call, pv_call,
                   ev_call, cm_call, mv_call, status_calls>>

NextParse == Parse

SpecParse == InitCalls /\ [][NextParse]_vars

\* ------------------------------------------------------------------------
\* Claims about the cost-breakdown stage

\* equality of two exact quotients
SameQuotient(q1, q2) == q1[1] * q2[2] = q2[1] * q1[2]

\* C11: for every period of every parsed project, the stored CM2 value is
\* the stored CM1 value minus the IC total of the period, and is the
\* selling price minus the EC total minus the IC total of the period, also
\* when the selling price of the period is 0.
C11_MarginIdentity ==
    (parse_call.called /\ parse_call.result.parsed) =>
        LET ca == parse_call.result.cost_analysis
        IN  \A p \in Periods :
                /\ ca.cm2_value[p] = ca.cm1_value[p] - ca.ic_total[p]
                /\ ca.cm2_value[p] =
                       ca.selling_price[p] - ca.ec_total[p] - ca.ic_total[p]

\* C12: a source without a selling-price row, a source without the
\* cost-breakdown sheet included, still yields a record; its selling price
\* is the contract value in all three periods, it is flagged as lacking
\* the selling price, and its CM1 value is the contract value minus the EC
\* total in each period.
C12_SellingPriceFallback ==
    (/\ parse_call.called
     /\ \/ ~parse_call.workbook.has_cost_sheet
        \/ ~parse_call.workbook.selling_price.found)
    => /\ parse_call.result.parsed
       /\ LET ca == parse_call.result.cost_analysis
               contract_value == parse_call.workbook.contract_value
           IN  /\ ~ca.selling_price_found
               /\ \A p \in Periods :
                      /\ ca.selling_price[p] = contract_value
                      /\ ca.cm1_value[p] =
                             contract_value - parse_call.workbook.ec_total[p]

\* C14: every parsed work package has variance_pct =
\* period_variance(fct_n, as_sold), hence 100 when as_sold = 0 and
\* fct_n > 0, and commitment_ratio = committed/as_sold, or 0 when
\* as_sold = 0.
C14_WorkPackageDerived ==
    (parse_call.called /\ parse_call.result.parsed) =>
        \A i \in 1..Len(parse_call.result.work_packages) :
            LET wp == parse_call.result.work_packages[i]
            IN  /\ SameQuotient(wp.variance_pct,
                                calculate_period_variance(wp.fct_n, wp.as_sold))
                /\ (wp.as_sold = 0 /\ wp.fct_n > 0)
                      => QEq(wp.variance_pct, 10000)
                /\ IF wp.as_sold = 0
                   THEN QEq(wp.commitment_ratio, 0)
                   ELSE wp.commitment_ratio[1] * wp.as_sold
                            = wp.committed * 100 * wp.commitment_ratio[2]

\* ------------------------------------------------------------------------
\* Exact rationals: <<numerator, denominator>> with a positive denominator,
\* in lowest terms, for the amounts and ratios the earned value engine
\* divides

RECURSIVE GCD(_, _)
GCD(a, b) == IF b = 0 THEN a ELSE GCD(b, a % b)

Rat(num, den) ==
    LET g == GCD(Abs(num), Abs(den))
        sign == IF den < 0 THEN -1 ELSE 1
    IN  <<sign * (num \div g), sign * (den \div g)>>

RInt(n) == <<n, 1>>
RAdd(a, b) == Rat(a[1] * b[2] + b[1] * a[2], a[2] * b[2])
RSub(a, b) == Rat(a[1] * b[2] - b[1] * a[2], a[2] * b[2])
RMul(a, b) == Rat(a[1] * b[1], a[2] * b[2])
\* a / b for b # 0
RDiv(a, b) == Rat(a[1] * b[2], a[2] * b[1])
RPos(a) == a[1] > 0

\* ------------------------------------------------------------------------
\* Earned value engine
\*
\* The record read: revenues [contract_price, poc_n, revenues_n] (amounts in
\* whole units, POC in hundredths of a percent), cost_analysis
\* [total_actuals], and malformed:
\*   "none"                   every field is of the expected type
\*   "cost_analysis_missing"  the record has no cost_analysis entry
\*   "cost_analysis"          cost_analysis is not a mapping
\*   "total_actuals"          total_actuals is not a number
\* The bundle returned holds exact rationals: amounts in whole units, the
\* indices as plain ratios.

EVBundle(pv, ev, ac, cpi, spi, cv, sv, eac, vac) ==
    [ planned_value |-> pv, earned_value |-> ev, actual_cost |-> ac,
      cost_performance_index |-> cpi, schedule_performance_index |-> spi,
      cost_variance |-> cv, schedule_variance |-> sv,
      estimate_at_completion |-> eac, variance_at_completion |-> vac,
      cost_efficiency |-> RMul(RSub(cpi, RInt(1)), RInt(100)),
      schedule_efficiency |-> RMul(RSub(spi, RInt(1)), RInt(100)) ]

\* the except branch
NeutralBundle ==
    EVBundle(RInt(0), RInt(0), RInt(0), RInt(1), RInt(1), RInt(0), RInt(0),
             RInt(0), RInt(0))

EVMalformations ==
    {"none", "cost_analysis_missing", "cost_analysis", "total_actuals"}

\* mutant: the actual cost is the actuals total, without the fallback to
\* the revenue
EarnedValue_raw(contract_value, poc_current, revenue_current, actual_costs) ==
    LET planned_value == RInt(contract_value)
        earned_value ==
            IF poc_current > 0
            THEN Rat(poc_current * contract_value, 10000)
            ELSE RInt(revenue_current)
        actual_cost ==
            RInt(actual_costs)
        cost_performance_index ==
            IF RPos(actual_cost) THEN RDiv(earned_value, actual_cost)
            ELSE RInt(1)
        schedule_performance_index ==
            IF revenue_current > 0
            THEN RDiv(earned_value, RInt(revenue_current))
            ELSE RInt(1)
        estimate_at_completion ==
            IF RPos(cost_performance_index)
            THEN RAdd(actual_cost,
                      RDiv(RSub(planned_value, earned_value),
                           cost_performance_index))
            ELSE planned_value
    IN  EVBundle(planned_value, earned_value, actual_cost,
                 cost_performance_index, schedule_performance_index,
                 RSub(earned_value, actual_cost),
                 RSub(earned_value, RInt(revenue_current)),
                 estimate_at_completion,
                 RSub(planned_value, estimate_at_completion))

\* mutant: at a CPI of 0 the estimate at completion is the actual cost
EarnedValue_eac_actuals(contract_value, poc_current, revenue_current, actual_costs) ==
    LET planned_value == RInt(contract_value)
        earned_value ==
            IF poc_current > 0
            THEN Rat(poc_current * contract_value, 10000)
            ELSE RInt(revenue_current)
        actual_cost ==
            IF actual_costs > 0 THEN RInt(actual_costs)
            ELSE RInt(revenue_current)
        cost_performance_index ==
            IF RPos(actual_cost) THEN RDiv(earned_value, actual_cost)
            ELSE RInt(1)
        schedule_performance_index ==
            IF revenue_current > 0
            THEN RDiv(earned_value, RInt(revenue_current))
            ELSE RInt(1)
        estimate_at_completion ==
            IF RPos(cost_performance_index)
            THEN RAdd(actual_cost,
                      RDiv(RSub(planned_value, earned_value),
                           cost_performance_index))
            ELSE actual_cost
    IN  EVBundle(planned_value, earned_value, actual_cost,
                 cost_performance_index, schedule_performance_index,
                 RSub(earned_value, actual_cost),
                 RSub(earned_value, RInt(revenue_current)),
                 estimate_at_completion,
                 RSub(planned_value, estimate_at_completion))

\* the try branch, on a record whose reads succeed
EarnedValue(contract_value, poc_current, revenue_current, actual_costs) ==
    LET planned_value == RInt(contract_value)
        earned_value ==
            IF poc_current > 0
            THEN Rat(poc_current * contract_value, 10000)
            ELSE RInt(revenue_current)
        actual_cost ==
            IF actual_costs > 0 THEN RInt(actual_costs)
            ELSE RInt(revenue_current)
        cost_performance_index ==
            IF RPos(actual_cost) THEN RDiv(earned_value, actual_cost)
            ELSE RInt(1)
        schedule_performance_index ==
            IF revenue_current > 0
            THEN RDiv(earned_value, RInt(revenue_current))
            ELSE RInt(1)
        estimate_at_completion ==
            IF RPos(cost_performance_index)
            THEN RAdd(actual_cost,
                      RDiv(RSub(planned_value, earned_value),
                           cost_performance_index))
            ELSE planned_value
    IN  EVBundle(planned_value, earned_value, actual_cost,
                 cost_performance_index, schedule_performance_index,
                 RSub(earned_value, actual_cost),
                 RSub(earned_value, RInt(revenue_current)),
                 estimate_at_completion,
                 RSub(planned_value, estimate_at_completion))

\* mutant: a total_actuals that is not a number is read as 0
calculate_earned_value_metrics_lenient(project_data) ==
    IF project_data.malformed = "cost_analysis"
    THEN NeutralBundle
    ELSE EarnedValue(project_data.revenues.contract_price,
                     project_data.revenues.poc_n,
                     project_data.revenues.revenues_n,
                     IF project_data.malformed = "none"
                     THEN project_data.cost_analysis.total_actuals
                     ELSE 0)

\* cost_analysis is read with .get(..., {}) and total_actuals with
\* .get(..., 0): a missing entry is not a failure.  A cost_analysis without
\* .get and a total_actuals that cannot be compared with 0 raise inside the
\* try block.
calculate_earned_value_metrics(project_data) ==
    IF project_data.malformed \in {"cost_analysis", "total_actuals"}
    THEN NeutralBundle
    ELSE EarnedValue(project_data.revenues.contract_price,
                     project_data.revenues.poc_n,
                     project_data.revenues.revenues_n,
                     IF project_data.malformed = "cost_analysis_missing"
                     THEN 0
                     ELSE project_data.cost_analysis.total_actuals)

\* ------------------------------------------------------------------------
\* Specification of the earned value engine: one call on any record

EVRecords ==
    [ revenues :
        [ contract_price : {0, 10, 20},
          poc_n : {0, 2500, 5000, 10000},
          revenues_n : {-10, 0, 5, 10} ],
      cost_analysis : [ total_actuals : {0, 4, 10, 25} ],
      malformed : EVMalformations ]

EarnedValueCall ==
    /\ ~ev_call.called
    /\ \E project_data \in EVRecords :
          ev_call' = [called |-> TRUE, project_data |-> project_data,
                      result |-> calculate_earned_value_metrics(project_data)]
    /\ UNCHANGED <<thresholds, projects_data, tl_call, ra_call, parse_call,
                   pv_call, cm_call, mv_call, status_calls>>

NextEarnedValue == EarnedValueCall

SpecEarnedValue == InitCalls /\ [][NextEarnedValue]_vars

\* ------------------------------------------------------------------------
\* Claims about the earned value engine

\* the call was made on a record whose fields are all of the expected type
WellTypedEVCall == ev_call.called /\ ev_call.project_data.malformed = "none"

\* The equations of the bundle.  The indices are 1.0 when their divisor is
\* 0 (only_zero) or when it is not positive (otherwise).
EarnedValueEquations(only_zero) ==
    LET p == ev_call.project_data
        r == ev_call.result
        contract_value == RInt(p.revenues.contract_price)
        revenue == RInt(p.revenues.revenues_n)
        Guarded(divisor) ==
            IF only_zero THEN divisor[1] = 0 ELSE divisor[1] <= 0
    IN  /\ r.earned_value =
               IF p.revenues.poc_n > 0
               THEN Rat(p.revenues.poc_n * p.revenues.contract_price, 10000)
               ELSE revenue
        /\ r.actual_cost =
               IF p.cost_analysis.total_actuals > 0
               THEN RInt(p.cost_analysis.total_actuals)
               ELSE revenue
        /\ r.cost_performance_index =
               IF Guarded(r.actual_cost) THEN RInt(1)
               ELSE RDiv(r.earned_value, r.actual_cost)
        /\ r.schedule_performance_index =
               IF Guarded(revenue) THEN RInt(1)
               ELSE RDiv(r.earned_value, revenue)
        /\ r.cost_variance = RSub(r.earned_value, r.actual_cost)
        /\ r.schedule_variance = RSub(r.earned_value, revenue)
        /\ r.estimate_at_completion =
               IF RPos(r.cost_performance_index)
               THEN RAdd(r.actual_cost,
                         RDiv(RSub(contract_value, r.earned_value),
                              r.cost_performance_index))
               ELSE contract_value
        /\ r.variance_at_completion =
               RSub(contract_value, r.estimate_at_completion)

\* C15 as stated: on every well-typed record, earned_value = POC/100 x
\* contract value if POC > 0 else revenue; actual_cost = total actuals if
\* > 0 else revenue; CPI = earned_value/actual_cost, or 1.0 if
\* actual_cost = 0; SPI = earned_value/revenue, or 1.0 if revenue = 0;
\* cost_variance = earned_value - actual_cost; schedule_variance =
\* earned_value - revenue; EAC = actual_cost + (contract value -
\* earned_value)/CPI if CPI > 0 else contract value; VAC = contract value -
\* EAC.
C15_EarnedValueAsStated ==
    WellTypedEVCall => EarnedValueEquations(TRUE)

\* C15 as amended: the same equations, with CPI = 1.0 whenever
\* actual_cost <= 0 and SPI = 1.0 whenever revenue <= 0.
C15_EarnedValue ==
    WellTypedEVCall => EarnedValueEquations(FALSE)

\* a record without actuals and with a negative revenue: the actual cost
\* is negative and both indices are 1.0, although the earned value is
\* positive
C15_Witness ==
    /\ WellTypedEVCall
    /\ ev_call.result.actual_cost[1] < 0
    /\ RPos(ev_call.result.earned_value)
    /\ ev_call.result.cost_performance_index = RInt(1)
    /\ ev_call.result.schedule_performance_index = RInt(1)

\* the indices are 1.0 and the three variances are 0
IsNeutral(r) ==
    /\ r.cost_performance_index = RInt(1)
    /\ r.schedule_performance_index = RInt(1)
    /\ r.cost_variance = RInt(0)
    /\ r.schedule_variance = RInt(0)
    /\ r.variance_at_completion = RInt(0)

\* C16 as stated: whenever cost_analysis is missing or not a mapping, or
\* total_actuals is not a number, the bundle returned is the neutral one:
\* CPI = SPI = 1.0, cost_variance = schedule_variance =
\* variance_at_completion = 0.
C16_NeutralOnFailureAsStated ==
    (ev_call.called /\ ev_call.project_data.malformed # "none")
        => IsNeutral(ev_call.result)

\* C16 as amended: when cost_analysis is not a mapping or total_actuals is
\* not a number the bundle returned is the neutral one (indices 1.0,
\* variances 0, amounts 0); a missing cost_analysis is no failure: the
\* bundle is computed with the revenue as actual cost.
C16_NeutralOnFailure ==
    ev_call.called =>
        LET p == ev_call.project_data
            r == ev_call.result
            revenue == RInt(p.revenues.revenues_n)
        IN  /\ p.malformed \in {"cost_analysis", "total_actuals"} =>
                  /\ IsNeutral(r)
                  /\ r.earned_value = RInt(0)
                  /\ r.actual_cost = RInt(0)
                  /\ r.planned_value = RInt(0)
                  /\ r.estimate_at_completion = RInt(0)
            /\ p.malformed = "cost_analysis_missing" =>
                  /\ r.planned_value = RInt(p.revenues.contract_price)
                  /\ r.actual_cost = revenue
                  /\ r.cost_variance = RSub(r.earned_value, revenue)
                  /\ r.cost_performance_index =
                         IF RPos(revenue) THEN RDiv(r.earned_value, revenue)
                         ELSE RInt(1)

\* a total_actuals that is not a number, in a record whose revenue and
\* earned value would give indices other than 1.0
C16_Witness ==
    /\ ev_call.called
    /\ ev_call.project_data.malformed = "total_actuals"
    /\ ev_call.project_data.revenues.revenues_n = 5
    /\ ev_call.project_data.revenues.poc_n = 5000
    /\ ev_call.project_data.revenues.contract_price = 20
    /\ IsNeutral(ev_call.result)

\* ------------------------------------------------------------------------
\* Contingency engine
\*
\* The work packages read carry [description, as_sold, fct_n1, fct_n];
\* poc_current is in hundredths of a percent; consumed_percentage and
\* efficiency are exact rationals, in percent.

RLe(a, b) == a[1] * b[2] <= b[1] * a[2]
RMin(a, b) == IF RLe(a, b) THEN a ELSE b
RMax(a, b) == IF RLe(a, b) THEN b ELSE a

\* the result for a project without a risk-contingency package
NoContingency ==
    [ has_contingency |-> FALSE,
      contingency_as_sold |-> 0, contingency_fct_n1 |-> 0,
      contingency_fct_n |-> 0, consumed_amount |-> 0,
      consumed_percentage |-> RInt(0),
      efficiency |-> << >>,    \* None
      trend |-> "No Contingency", status |-> "N/A" ]

\* mutant: the efficiency is not capped
calculate_contingency_metrics_uncapped(work_packages, poc_current) ==
    LET risk_contingencies == SelectSeq(work_packages, IsRiskContingency)
        contingency_as_sold ==
            SumOver(risk_contingencies,
                    [wp \in Range(risk_contingencies) |-> wp.as_sold])
        contingency_fct_n1 ==
            SumOver(risk_contingencies,
                    [wp \in Range(risk_contingencies) |-> wp.fct_n1])
        contingency_fct_n ==
            SumOver(risk_contingencies,
                    [wp \in Range(risk_contingencies) |-> wp.fct_n])
        consumed_amount == contingency_as_sold - contingency_fct_n
        consumed_percentage ==
            IF contingency_as_sold > 0
            THEN Rat(consumed_amount * 100, contingency_as_sold)
            ELSE RInt(0)
        raw_efficiency ==
            IF poc_current > 0
            THEN RMul(RSub(RInt(2),
                           RDiv(consumed_percentage, Rat(poc_current, 100))),
                      RInt(100))
            ELSE RInt(200)
        efficiency == raw_efficiency
        early_consumption ==
            IF contingency_as_sold > 0
            THEN contingency_as_sold - contingency_fct_n1 ELSE 0
        recent_consumption ==
            IF contingency_fct_n1 > 0
            THEN contingency_fct_n1 - contingency_fct_n ELSE 0
        trend ==
            IF early_consumption > 0
               /\ recent_consumption * 10 > early_consumption * 12
            THEN "Accelerating"
            ELSE IF recent_consumption * 10 < early_consumption * 8
            THEN "Improving"
            ELSE "Stable"
        status ==
            IF RLe(RInt(150), efficiency) THEN "Excellent"
            ELSE IF RLe(RInt(120), efficiency) THEN "Good"
            ELSE IF RLe(RInt(80), efficiency) THEN "On Track"
            ELSE IF RLe(RInt(50), efficiency) THEN "Warning"
            ELSE "Critical"
    IN  IF risk_contingencies = << >>
        THEN NoContingency
        ELSE [ has_contingency |-> TRUE,
               contingency_as_sold |-> contingency_as_sold,
               contingency_fct_n1 |-> contingency_fct_n1,
               contingency_fct_n |-> contingency_fct_n,
               consumed_amount |-> consumed_amount,
               consumed_percentage |-> consumed_percentage,
               efficiency |-> efficiency,
               trend |-> trend,
               status |-> status,
               early_consumption |-> early_consumption,
               recent_consumption |-> recent_consumption ]

calculate_contingency_metrics(work_packages, poc_current) ==
    LET risk_contingencies == SelectSeq(work_packages, IsRiskContingency)
        contingency_as_sold ==
            SumOver(risk_contingencies,
                    [wp \in Range(risk_contingencies) |-> wp.as_sold])
        contingency_fct_n1 ==
            SumOver(risk_contingencies,
                    [wp \in Range(risk_contingencies) |-> wp.fct_n1])
        contingency_fct_n ==
            SumOver(risk_contingencies,
                    [wp \in Range(risk_contingencies) |-> wp.fct_n])
        consumed_amount == contingency_as_sold - contingency_fct_n
        consumed_percentage ==
            IF contingency_as_sold > 0
            THEN Rat(consumed_amount * 100, contingency_as_sold)
            ELSE RInt(0)
        raw_efficiency ==
            IF poc_current > 0
            THEN RMul(RSub(RInt(2),
                           RDiv(consumed_percentage, Rat(poc_current, 100))),
                      RInt(100))
            ELSE RInt(200)
        efficiency == RMax(RInt(0), RMin(RInt(200), raw_efficiency))
        early_consumption ==
            IF contingency_as_sold > 0
            THEN contingency_as_sold - contingency_fct_n1 ELSE 0
        recent_consumption ==
            IF contingency_fct_n1 > 0
            THEN contingency_fct_n1 - contingency_fct_n ELSE 0
        trend ==
            IF early_consumption > 0
               /\ recent_consumption * 10 > early_consumption * 12
            THEN "Accelerating"
            ELSE IF recent_consumption * 10 < early_consumption * 8
            THEN "Improving"
            ELSE "Stable"
        status ==
            IF RLe(RInt(150), efficiency) THEN "Excellent"
            ELSE IF RLe(RInt(120), efficiency) THEN "Good"
            ELSE IF RLe(RInt(80), efficiency) THEN "On Track"
            ELSE IF RLe(RInt(50), efficiency) THEN "Warning"
            ELSE "Critical"
    IN  IF risk_contingencies = << >>
        THEN NoContingency
        ELSE [ has_contingency |-> TRUE,
               contingency_as_sold |-> contingency_as_sold,
               contingency_fct_n1 |-> contingency_fct_n1,
               contingency_fct_n |-> contingency_fct_n,
               consumed_amount |-> consumed_amount,
               consumed_percentage |-> consumed_percentage,
               efficiency |-> efficiency,
               trend |-> trend,
               status |-> status,
               early_consumption |-> early_consumption,
               recent_consumption |-> recent_consumption ]

\* ------------------------------------------------------------------------
\* Specification of the contingency engine: one call on any work packages
\* and any POC

\* a package that is no contingency, and contingencies: consumed steadily;
\* consumed ever slower; all consumed at once lately; created after the
\* sale and growing; untouched; released early and consumed late; negative
CMPackageKinds ==
    {[description |-> t[1], as_sold |-> t[2], fct_n1 |-> t[3],
      fct_n |-> t[4]] :
        t \in {<<{"risk"}, 500, 500, 500>>,
               <<{"risk", "contingenc"}, 1000, 900, 850>>,
               <<{"risk", "contingenc"}, 100, 90, 20>>,
               <<{"risk", "contingenc"}, 0, 50, 60>>,
               <<{"risk", "contingenc"}, 100, 100, 100>>,
               <<{"risk", "contingenc"}, 100, 0, 50>>,
               <<{"risk", "contingenc"}, 100, 120, 150>>,
               <<{"risk", "contingenc"}, -100, -50, 0>>}}

CMPackageInputs ==
    UNION {[1..n -> CMPackageKinds] : n \in 0..MaxContingencyWP}

POCInputs == {-1000, 0, 4000, 10000}

ContingencyCall ==
    /\ ~cm_call.called
    /\ \E work_packages \in CMPackageInputs, poc_current \in POCInputs :
          cm_call' = [called |-> TRUE, work_packages |-> work_packages,
                      poc_current |-> poc_current,
                      result |-> calculate_contingency_metrics(work_packages,
                                                               poc_current)]
    /\ UNCHANGED <<thresholds, projects_data, tl_call, ra_call, parse_call,
                   pv_call, ev_call, mv_call, status_calls>>

NextContingency == ContingencyCall

SpecContingency == InitCalls /\ [][NextContingency]_vars

\* ------------------------------------------------------------------------
\* Claims about the contingency engine

\* the call found at least one package with both tokens
ContingencyFound ==
    /\ cm_call.called
    /\ \E i \in 1..Len(cm_call.work_packages) :
          HasBothTokens(cm_call.work_packages[i])

\* the sum of a field over the packages with both tokens
RECURSIVE ContingencySum(_, _)
ContingencySum(wps, field) ==
    IF wps = << >> THEN 0
    ELSE (IF HasBothTokens(Head(wps)) THEN Head(wps)[field] ELSE 0)
             + ContingencySum(Tail(wps), field)

\* (2 - consumed_pct/POC) x 100 clamped to [0, 200], for POC # 0
ClampedEfficiency(consumed_pct, poc) ==
    LET e == RMul(RSub(RInt(2), RDiv(consumed_pct, Rat(poc, 100))), RInt(100))
    IN  IF RLe(e, RInt(0)) THEN RInt(0)
        ELSE IF RLe(RInt(200), e) THEN RInt(200) ELSE e

\* The efficiency of the claim.  consumed_pct is 0 and the efficiency is
\* 200 exactly at as_sold = 0 and POC = 0 (only_zero), or whenever as_sold,
\* respectively POC, is not positive (otherwise).
EfficiencyEquations(only_zero) ==
    LET as_sold == ContingencySum(cm_call.work_packages, "as_sold")
        fct_n == ContingencySum(cm_call.work_packages, "fct_n")
        poc == cm_call.poc_current
        Guarded(x) == IF only_zero THEN x = 0 ELSE x <= 0
        consumed_pct ==
            IF Guarded(as_sold) THEN RInt(0)
            ELSE Rat((as_sold - fct_n) * 100, as_sold)
    IN  /\ cm_call.result.efficiency =
               IF Guarded(poc) THEN RInt(200)
               ELSE ClampedEfficiency(consumed_pct, poc)
        /\ RLe(RInt(0), cm_call.result.efficiency)
        /\ RLe(cm_call.result.efficiency, RInt(200))

\* C17 as stated: with at least one risk-contingency package, the
\* efficiency is 200 if POC = 0 and otherwise (2 - consumed_pct/POC) x 100
\* clamped to [0, 200], with consumed_pct = (as_sold - fct_n)/as_sold x 100
\* (0 if as_sold = 0); it lies in [0, 200] for every input.
C17_EfficiencyAsStated ==
    ContingencyFound => EfficiencyEquations(TRUE)

\* C17 as amended: the same, with the efficiency 200 whenever POC <= 0 and
\* consumed_pct 0 whenever as_sold <= 0.
C17_Efficiency ==
    ContingencyFound => EfficiencyEquations(FALSE)

\* a contingency that grew: the uncapped score is above 200, the
\* efficiency is 200
C17_Witness ==
    /\ ContingencyFound
    /\ cm_call.poc_current > 0
    /\ cm_call.result.consumed_percentage[1] < 0
    /\ cm_call.result.efficiency = RInt(200)

\* C18: with early = as_sold - fct_n1 and recent = fct_n1 - fct_n over the
\* contingency packages, the trend is Accelerating if early > 0 and
\* recent > 1.2 x early, else Improving if recent < 0.8 x early, else
\* Stable, also when as_sold = 0 or fct_n1 = 0; for 1000 / 900 / 850 at
\* POC 40 the result is consumed 15%, efficiency 162.5, trend Improving.
\* Stated here for the amounts that are not negative.
C18_Trend ==
    (/\ ContingencyFound
     /\ \A i \in 1..Len(cm_call.work_packages) :
           /\ cm_call.work_packages[i].as_sold >= 0
           /\ cm_call.work_packages[i].fct_n1 >= 0
           /\ cm_call.work_packages[i].fct_n >= 0) =>
        LET as_sold == ContingencySum(cm_call.work_packages, "as_sold")
            fct_n1 == ContingencySum(cm_call.work_packages, "fct_n1")
            fct_n == ContingencySum(cm_call.work_packages, "fct_n")
            early == as_sold - fct_n1
            recent == fct_n1 - fct_n
        IN  /\ cm_call.result.trend =
                   IF early > 0 /\ recent * 10 > early * 12
                   THEN "Accelerating"
                   ELSE IF recent * 10 < early * 8 THEN "Improving"
                   ELSE "Stable"
            /\ (as_sold = 1000 /\ fct_n1 = 900 /\ fct_n = 850
                    /\ cm_call.poc_current = 4000)
                  => /\ cm_call.result.consumed_percentage = RInt(15)
                     /\ cm_call.result.efficiency = Rat(325, 2)
                     /\ cm_call.result.trend = "Improving"

\* ------------------------------------------------------------------------
\* Margin variability engine
\*
\* The record read: cost_analysis with the CM1 and CM2 percentages of the
\* three periods (hundredths of a percent) and the selling price of fct_n
\* (whole units).  Labels are modelled without their icons.

\* the square of np.std over the non-zero values, as an exact rational
\* (0 with fewer than two of them)
VolatilitySquared(margin_values) ==
    LET valid_values == SelectSeq(margin_values, LAMBDA v : v # 0)
        k == Len(valid_values)
        sum == SumOver(valid_values, [v \in Range(valid_values) |-> v])
        squares ==
            SumOver(valid_values, [v \in Range(valid_values) |-> v * v])
    IN  IF k < 2 THEN RInt(0) ELSE Rat(k * squares - sum * sum, k * k)

assess_margin_trend(cm2_as_sold, cm2_fct_n1, cm2_fct_n) ==
    LET total_change == cm2_fct_n - cm2_as_sold
        recent_change == IF cm2_fct_n1 # 0 THEN cm2_fct_n - cm2_fct_n1 ELSE 0
    IN  IF cm2_as_sold = 0 THEN "Unknown"
        ELSE IF total_change > 200 THEN "Improving"
        ELSE IF total_change < -500 THEN "Severely Declining"
        ELSE IF total_change < -200 THEN "Declining"
        ELSE IF Abs(recent_change) <= 100 THEN "Stable"
        ELSE "Volatile"

assess_margin_risk(current_cm2, cm2_total_erosion, T) ==
    LET cm2_excellent == T.cm2_margin.excellent
        cm2_good == T.cm2_margin.good
        cm2_warning == T.cm2_margin.warning
    IN  IF cm2_total_erosion > 200
        THEN IF current_cm2 >= cm2_excellent THEN "Low"
             ELSE IF current_cm2 >= cm2_good THEN "Low"
             ELSE IF current_cm2 >= cm2_warning THEN "Medium"
             ELSE "High"
        ELSE IF cm2_total_erosion >= -200
        THEN IF current_cm2 >= cm2_excellent THEN "Low"
             ELSE IF current_cm2 >= cm2_good THEN "Medium"
             ELSE IF current_cm2 >= cm2_warning THEN "High"
             ELSE "Critical"
        ELSE IF current_cm2 >= cm2_excellent /\ cm2_total_erosion > -500
             THEN "Medium"
        ELSE IF current_cm2 >= cm2_good /\ cm2_total_erosion > -500
             THEN "High"
        ELSE IF current_cm2 >= cm2_warning /\ cm2_total_erosion > -1000
             THEN "High"
        ELSE "Critical"

\* the average of the two changes against 1, 3 and 5 points
assess_forecast_reliability(cm2_n1, cm2_n, cm1_n1, cm1_n) ==
    LET cm2_change == IF cm2_n1 # 0 THEN Abs(cm2_n - cm2_n1) ELSE 0
        cm1_change == IF cm1_n1 # 0 THEN Abs(cm1_n - cm1_n1) ELSE 0
        twice_avg_change == cm2_change + cm1_change
    IN  IF twice_avg_change <= 200 THEN "Highly Reliable"
        ELSE IF twice_avg_change <= 600 THEN "Reliable"
        ELSE IF twice_avg_change <= 1000 THEN "Moderately Reliable"
        ELSE "Unreliable"

\* mutant: the CM1 percentages are not looked at
HasHistoricalData_cm2only(cm2, cm1) ==
    \/ (cm2.as_sold # 0 /\ cm2.as_sold # cm2.fct_n)
    \/ (cm2.fct_n1 # 0 /\ cm2.fct_n1 # cm2.fct_n)

\* the test that decides whether the project is analysed
HasHistoricalData(cm2, cm1) ==
    \/ (cm2.as_sold # 0 /\ cm2.as_sold # cm2.fct_n)
    \/ (cm2.fct_n1 # 0 /\ cm2.fct_n1 # cm2.fct_n)
    \/ (cm1.as_sold # 0 /\ cm1.as_sold # cm1.fct_n)
    \/ (cm1.fct_n1 # 0 /\ cm1.fct_n1 # cm1.fct_n)

\* the result for a project that is not analysed
NoHistoricalData(cm2, cm1) ==
    [ has_historical_data |-> FALSE,
      cm2_current |-> cm2.fct_n,
      cm1_current |-> cm1.fct_n,
      message |-> "No historical margin data found for variability analysis" ]

calculate_margin_variability_metrics(project_data, T) ==
    LET cost_analysis == project_data.cost_analysis
        cm2 == cost_analysis.cm2_pct
        cm1 == cost_analysis.cm1_pct
        selling_price_fct_n == cost_analysis.selling_price_fct_n
        cm2_total_erosion == cm2.fct_n - cm2.as_sold
        cm1_total_erosion == cm1.fct_n - cm1.as_sold
    IN  IF ~HasHistoricalData(cm2, cm1)
        THEN NoHistoricalData(cm2, cm1)
        ELSE [ has_historical_data |-> TRUE,
               cm2_total_erosion |-> cm2_total_erosion,
               cm2_recent_change |-> cm2.fct_n - cm2.fct_n1,
               cm2_forecast_accuracy |->
                   IF cm2.fct_n1 # 0 THEN Abs(cm2.fct_n1 - cm2.fct_n) ELSE 0,
               cm2_volatility_squared |->
                   VolatilitySquared(<<cm2.as_sold, cm2.fct_n1, cm2.fct_n>>),
               cm1_total_erosion |-> cm1_total_erosion,
               cm1_recent_change |-> cm1.fct_n - cm1.fct_n1,
               cm1_forecast_accuracy |->
                   IF cm1.fct_n1 # 0 THEN Abs(cm1.fct_n1 - cm1.fct_n) ELSE 0,
               cm1_volatility_squared |->
                   VolatilitySquared(<<cm1.as_sold, cm1.fct_n1, cm1.fct_n>>),
               margin_trend |->
                   assess_margin_trend(cm2.as_sold, cm2.fct_n1, cm2.fct_n),
               margin_risk_level |->
                   assess_margin_risk(cm2.fct_n, cm2_total_erosion, T),
               forecast_reliability |->
                   assess_forecast_reliability(cm2.fct_n1, cm2.fct_n,
                                               cm1.fct_n1, cm1.fct_n),
               cm2_erosion_value |->
                   Rat(cm2_total_erosion * selling_price_fct_n, 10000),
               cm1_erosion_value |->
                   Rat(cm1_total_erosion * selling_price_fct_n, 10000),
               cm2_current |-> cm2.fct_n,
               cm1_current |-> cm1.fct_n,
               cm2_as_sold |-> cm2.as_sold,
               cm2_fct_n1 |-> cm2.fct_n1,
               cm1_as_sold |-> cm1.as_sold,
               cm1_fct_n1 |-> cm1.fct_n1,
               selling_price_fct_n |-> selling_price_fct_n ]

\* ------------------------------------------------------------------------
\* Specification of the margin variability engine: one call on any
\* margins, under either table

MarginPercentages == {0, 1000, 1150, 1200, 1800, 2000}

CM2Inputs ==
    [as_sold : MarginPercentages, fct_n1 : MarginPercentages,
     fct_n : MarginPercentages]

CM1Inputs ==
    { PerPeriod(0, 0, 0), PerPeriod(2500, 2500, 2500),
      PerPeriod(2500, 2300, 2500), PerPeriod(0, 0, 3000) }

MarginRecords ==
    [ cost_analysis :
        [ cm2_pct : CM2Inputs, cm1_pct : CM1Inputs,
          selling_price_fct_n : {0, 1000} ] ]

MarginVariability ==
    /\ ~mv_call.called
    /\ \E project_data \in MarginRecords :
          mv_call' = [called |-> TRUE, project_data |-> project_data,
                      result |-> calculate_margin_variability_metrics(
                                     project_data, thresholds)]
    /\ UNCHANGED <<thresholds, projects_data, tl_call, ra_call, parse_call,
                   pv_call, ev_call, cm_call, status_calls>>

NextMargin == MarginVariability

SpecMargin == InitRisk /\ [][NextMargin]_vars

\* ------------------------------------------------------------------------
\* Claims about the margin variability engine

\* at least two of the three period values differ
TwoDiffer(m) == ~(m.as_sold = m.fct_n1 /\ m.fct_n1 = m.fct_n)

\* a period value other than 0 that differs from the fct_n value
DiffersFromCurrent(m) ==
    \/ (m.as_sold # 0 /\ m.as_sold # m.fct_n)
    \/ (m.fct_n1 # 0 /\ m.fct_n1 # m.fct_n)

\* the result is the no-data result: the flag, the two current margins and
\* the message, nothing else
IsNoDataResult(r, cost_analysis) ==
    /\ DOMAIN r =
          {"has_historical_data", "cm2_current", "cm1_current", "message"}
    /\ ~r.has_historical_data
    /\ r.cm2_current = cost_analysis.cm2_pct.fct_n
    /\ r.cm1_current = cost_analysis.cm1_pct.fct_n

\* C19 as stated: has_historical_data is true exactly when at least two of
\* the three period values differ for CM1% or for CM2%, and the no-data
\* result is returned exactly in the other cases; a project whose as-sold
\* and fct_n1 margins are 0 and whose fct_n margin is not is analysed.
C19_HistoricalDataAsStated ==
    mv_call.called =>
        LET ca == mv_call.project_data.cost_analysis
            differ == TwoDiffer(ca.cm2_pct) \/ TwoDiffer(ca.cm1_pct)
        IN  /\ mv_call.result.has_historical_data <=> differ
            /\ IsNoDataResult(mv_call.result, ca) <=> ~differ

\* C19 as amended: has_historical_data is true exactly when, for CM2% or
\* for CM1%, the as-sold value or the fct_n1 value is not 0 and differs
\* from the fct_n value, and the no-data result is returned exactly in the
\* other cases; a project whose as-sold and fct_n1 margins are all 0 is
\* skipped whatever its fct_n margins.
C19_HistoricalData ==
    mv_call.called =>
        LET ca == mv_call.project_data.cost_analysis
            differ ==
                DiffersFromCurrent(ca.cm2_pct) \/ DiffersFromCurrent(ca.cm1_pct)
        IN  /\ mv_call.result.has_historical_data <=> differ
            /\ IsNoDataResult(mv_call.result, ca) <=> ~differ
            /\ (/\ ca.cm2_pct.as_sold = 0 /\ ca.cm2_pct.fct_n1 = 0
                 /\ ca.cm1_pct.as_sold = 0 /\ ca.cm1_pct.fct_n1 = 0)
                  => ~mv_call.result.has_historical_data

\* a project with as-sold and fct_n1 margins 0 and fct_n margins 12 and 30
\* is skipped
C19_Witness ==
    /\ mv_call.called
    /\ mv_call.project_data.cost_analysis.cm2_pct = PerPeriod(0, 0, 1200)
    /\ mv_call.project_data.cost_analysis.cm1_pct = PerPeriod(0, 0, 3000)
    /\ ~mv_call.result.has_historical_data

\* C20: for every analysed project the trend label follows from
\* total_erosion = CM2 fct_n - CM2 as-sold and recent_change = CM2 fct_n -
\* CM2 fct_n1 as reported in the bundle: Improving if total_erosion > 2,
\* else Severely Declining if < -5, else Declining if < -2, else Stable if
\* |recent_change| <= 1, else Volatile, and no other label; for CM2
\* 20 / 18 / 12 the label is Severely Declining and total_erosion is -8.
C20_TrendLabel ==
    (mv_call.called /\ mv_call.result.has_historical_data) =>
        LET r == mv_call.result
            cm2 == mv_call.project_data.cost_analysis.cm2_pct
        IN  /\ r.cm2_total_erosion = cm2.fct_n - cm2.as_sold
            /\ r.cm2_recent_change = cm2.fct_n - cm2.fct_n1
            /\ r.margin_trend =
                   IF r.cm2_total_erosion > 200 THEN "Improving"
                   ELSE IF r.cm2_total_erosion < -500
                        THEN "Severely Declining"
                   ELSE IF r.cm2_total_erosion < -200 THEN "Declining"
                   ELSE IF Abs(r.cm2_recent_change) <= 100 THEN "Stable"
                   ELSE "Volatile"
            /\ cm2 = PerPeriod(2000, 1800, 1200) =>
                   /\ r.margin_trend = "Severely Declining"
                   /\ r.cm2_total_erosion = -800

\* ------------------------------------------------------------------------
\* Claims about the margin risk level

RiskRank(level) ==
    CASE level = "Low" -> 1
      [] level = "Medium" -> 2
      [] level = "High" -> 3
      [] level = "Critical" -> 4

\* the level of a stable margin, from the CM2 level alone
StableRiskRank(current_cm2, T) ==
    IF current_cm2 >= T.cm2_margin.excellent THEN 1
    ELSE IF current_cm2 >= T.cm2_margin.good THEN 2
    ELSE IF current_cm2 >= T.cm2_margin.warning THEN 3
    ELSE 4

\* C21: with excellent >= good >= warning, at every CM2 level an improving
\* margin (erosion > 2 points) is rated one tier better than a stable
\* margin at that level (Low stays Low), a deteriorating margin (erosion
\* < -2 points) one tier worse (Critical stays Critical), and a
\* deteriorating margin is Critical whenever the current CM2 is below the
\* warning cut-off or the erosion is below -10 points.
C21_OneTierFromStable ==
    (mv_call.called /\ mv_call.result.has_historical_data) =>
        LET r == mv_call.result
            T == thresholds.cm2_margin
            current_cm2 == r.cm2_current
            erosion == r.cm2_total_erosion
            stable == StableRiskRank(current_cm2, thresholds)
            level == RiskRank(r.margin_risk_level)
            better == IF stable = 1 THEN 1 ELSE stable - 1
            worse == IF stable = 4 THEN 4 ELSE stable + 1
        IN  (T.excellent >= T.good /\ T.good >= T.warning) =>
                /\ erosion > 200 => level = better
                /\ (erosion >= -200 /\ erosion <= 200) => level = stable
                /\ erosion < -200 =>
                      IF current_cm2 < T.warning \/ erosion < -1000
                      THEN level = 4
                      ELSE level = worse

\* ------------------------------------------------------------------------
\* Specification of the maturity-adjusted velocity status: one call on any
\* velocity and current POC

\* velocities around the cut-offs of the ratio for several maturities
Velocities ==
    {-100, 0, 49, 50, 79, 80, 119, 120, 239, 240, 499, 500, 799, 800,
     1199, 1200}

\* current POC on both sides of every maturity step
Maturities ==
    {0, 3999, 4000, 5999, 6000, 7999, 8000, 8999, 9000, 9499, 9500, 10000}

VelocityMaturity ==
    /\ ~vm_call.called
    /\ \E poc_velocity \in Velocities, poc_current \in Maturities :
          vm_call' = [called |-> TRUE, poc_velocity |-> poc_velocity,
                      poc_current |-> poc_current,
                      expected_velocity |->
                          calculate_expected_poc_velocity(poc_current),
                      result |-> get_poc_velocity_status_with_maturity(
                                     poc_velocity, poc_current)]
    /\ UNCHANGED <<thresholds, projects_data, tl_call, ra_call, metric_calls,
                   os_call, row_call, ps_call>>

NextVelocity == VelocityMaturity

SpecVelocity == InitCalls /\ [][NextVelocity]_vars

\* ------------------------------------------------------------------------
\* Claims about the maturity-adjusted velocity status

\* the expected velocity the specification tabulates, in hundredths
ExpectedVelocityTable(poc) ==
    CASE poc >= 9500 -> 100
      [] poc < 9500 /\ poc >= 9000 -> 200
      [] poc < 9000 /\ poc >= 8000 -> 300
      [] poc < 8000 /\ poc >= 6000 -> 500
      [] poc < 6000 /\ poc >= 4000 -> 700
      [] poc < 4000 -> 1000

\* C22: for every current POC and velocity the expected velocity is 1.0 at
\* POC >= 95, 2.0 at >= 90, 3.0 at >= 80, 5.0 at >= 60, 7.0 at >= 40 and
\* 10.0 below, it is positive, and the tier is excellent when velocity /
\* expected >= 1.2, good when >= 0.8, warning when >= 0.5, else critical.
C22_MaturityAdjusted ==
    vm_call.called =>
        LET v == vm_call.poc_velocity
            e == ExpectedVelocityTable(vm_call.poc_current)
            tier == vm_call.result.tier
        IN  /\ vm_call.expected_velocity = e
            /\ vm_call.expected_velocity > 0
            /\ tier = "excellent" <=> 10 * v >= 12 * e
            /\ tier = "good" <=> (10 * v < 12 * e /\ 10 * v >= 8 * e)
            /\ tier = "warning" <=> (10 * v < 8 * e /\ 10 * v >= 5 * e)
            /\ tier = "critical" <=> 10 * v < 5 * e

\* a nearly complete project advancing 1.2 points is rated excellent, and
\* an early one advancing the same 1.2 points critical
C22_Witness ==
    /\ vm_call.called
    /\ vm_call.poc_velocity = 120
    /\ vm_call.poc_current = 9500
    /\ vm_call.result.tier = "excellent"

\* ------------------------------------------------------------------------
\* Overall project status
\*
\* An optional argument is a sequence: << >> when it is None, <<v>> when
\* the value v is passed.  The returned label is kept without its icon.

\* status_scores.get(status_class, 1)
StatusScore(status_class) ==
    CASE status_class = "excellent" -> 4
      [] status_class = "good" -> 3
      [] status_class = "warning" -> 2
      [] OTHER -> 1

\* the label of an average score, given as the sum of the three scores
OverallLabel(score_sum) ==
    LET avg_score == Quot(score_sum, 3)
    IN  IF ~QLt(avg_score, 350) THEN "Excellent"
        ELSE IF ~QLt(avg_score, 250) THEN "Good"
        ELSE IF ~QLt(avg_score, 150) THEN "Warning"
        ELSE "Critical"

\* mutant: the raw velocity class is scored, maturity is ignored
get_overall_project_status_raw(cm2_class, committed_class, poc_class, poc_current, poc_velocity) ==
    OverallLabel(StatusScore(cm2_class) + StatusScore(committed_class)
                 + StatusScore(poc_class))

get_overall_project_status(cm2_class, committed_class, poc_class, poc_current, poc_velocity) ==
    LET cm2_score == StatusScore(cm2_class)
        committed_score == StatusScore(committed_class)
        poc_score ==
            IF poc_current # << >> /\ poc_velocity # << >>
            THEN StatusScore(get_poc_velocity_status_with_maturity(
                                 poc_velocity[1], poc_current[1]).tier)
            ELSE StatusScore(poc_class)
    IN  OverallLabel(cm2_score + committed_score + poc_score)

\* one row of render_executive_project_table: the classes of the project
\* and its overall status (the formatted columns are left out)
ExecutiveRow(data, T) ==
    LET poc_current == data.revenues.poc_n
        poc_previous == data.revenues.poc_n1
        cm2_pct == data.cost_analysis.cm2_pct_fct_n
        committed_ratio == data.cost_analysis.committed_ratio
        cm2_status == get_traffic_light_status(cm2_pct, T.cm2_margin, FALSE)
        committed_status ==
            get_traffic_light_status(committed_ratio, T.committed_vs_budget,
                                     TRUE)
        poc_velocity == calculate_poc_velocity(poc_current, poc_previous)
        raw == get_traffic_light_status(poc_velocity, T.poc_velocity, FALSE)
        adjusted ==
            get_poc_velocity_status_with_maturity(poc_velocity, poc_current)
        poc_class == IF raw.icon # adjusted.icon THEN adjusted.tier
                     ELSE raw.tier
    IN  [ poc_velocity |-> poc_velocity,
          poc_icon |-> adjusted.icon,
          adjusted_for_maturity |-> raw.icon # adjusted.icon,
          cm2_class |-> cm2_status.tier,
          committed_class |-> committed_status.tier,
          poc_class |-> poc_class,
          overall_status |->
              get_overall_project_status(cm2_status.tier,
                                         committed_status.tier, poc_class,
                                         <<poc_current>>, <<poc_velocity>>) ]

\* ------------------------------------------------------------------------
\* Specification of the overall status: one direct call on any classes,
\* and one table row of any project, under either table

StatusClasses == {"excellent", "good", "warning", "critical", "stable"}

OptionalPOC == {<< >>, <<3000>>, <<9700>>}

OptionalVelocity == {<< >>, <<100>>, <<1100>>}

RowRecords ==
    [ cost_analysis :
        [ cm2_pct_fct_n : {300, 700, 1200, 1600},
          committed_ratio : {85, 95, 105, 125} ],
      revenues :
        [ poc_n : {3000, 8500, 9700}, poc_n1 : {2000, 8400, 9600} ] ]

OverallStatus ==
    /\ ~os_call.called
    /\ \E cm2_class \in StatusClasses, committed_class \in StatusClasses,
          poc_class \in StatusClasses, poc_current \in OptionalPOC,
          poc_velocity \in OptionalVelocity :
          os_call' = [called |-> TRUE, cm2_class |-> cm2_class,
                      committed_class |-> committed_class,
                      poc_class |-> poc_class, poc_current |-> poc_current,
                      poc_velocity |-> poc_velocity,
                      result |-> get_overall_project_status(
                                     cm2_class, committed_class, poc_class,
                                     poc_current, poc_velocity)]
    /\ UNCHANGED <<thresholds, projects_data, tl_call, ra_call, metric_calls,
                   vm_call, row_call, ps_call>>

RenderExecutiveRow ==
    /\ ~row_call.called
    /\ \E data \in RowRecords :
          row_call' = [called |-> TRUE, data |-> data,
                       row |-> ExecutiveRow(data, thresholds)]
    /\ UNCHANGED <<thresholds, projects_data, tl_call, ra_call, metric_calls,
                   vm_call, os_call, ps_call>>

NextStatus == OverallStatus \/ RenderExecutiveRow

SpecStatus == InitRisk /\ [][NextStatus]_vars

\* ------------------------------------------------------------------------
\* Claims about the overall status

FourTiers == {"excellent", "good", "warning", "critical"}

TierScore(tier) ==
    CASE tier = "excellent" -> 4
      [] tier = "good" -> 3
      [] tier = "warning" -> 2
      [] tier = "critical" -> 1

\* average >= 3.5 Excellent, >= 2.5 Good, >= 1.5 Warning, else Critical
BlendedStatus(a, b, c) ==
    LET total == TierScore(a) + TierScore(b) + TierScore(c)
    IN  IF 2 * total >= 7 * 3 THEN "Excellent"
        ELSE IF 2 * total >= 5 * 3 THEN "Good"
        ELSE IF 2 * total >= 3 * 3 THEN "Warning"
        ELSE "Critical"

\* C23: the overall status of a project scores the CM2 tier, the committed
\* ratio tier and the maturity-adjusted velocity tier 4, 3, 2, 1, averages
\* the three and maps the average at 3.5, 2.5 and 1.5; when the current POC
\* and the velocity are supplied the raw velocity tier the caller passes
\* has no influence.
C23_OverallStatus ==
    /\ (/\ os_call.called
        /\ os_call.cm2_class \in FourTiers
        /\ os_call.committed_class \in FourTiers
        /\ os_call.poc_current # << >>
        /\ os_call.poc_velocity # << >>) =>
           os_call.result =
               BlendedStatus(os_call.cm2_class, os_call.committed_class,
                             get_poc_velocity_status_with_maturity(
                                 os_call.poc_velocity[1],
                                 os_call.poc_current[1]).tier)
    /\ row_call.called =>
           LET data == row_call.data
               velocity == data.revenues.poc_n - data.revenues.poc_n1
           IN  row_call.row.overall_status =
                   BlendedStatus(
                       get_traffic_light_status(
                           data.cost_analysis.cm2_pct_fct_n,
                           thresholds.cm2_margin, FALSE).tier,
                       get_traffic_light_status(
                           data.cost_analysis.committed_ratio,
                           thresholds.committed_vs_budget, TRUE).tier,
                       get_poc_velocity_status_with_maturity(
                           velocity, data.revenues.poc_n).tier)

\* the caller passes a critical raw tier for a nearly complete project that
\* advances 1 point; the adjusted tier is good and the status is Excellent
C23_Witness ==
    /\ os_call.called
    /\ os_call.cm2_class = "excellent"
    /\ os_call.committed_class = "excellent"
    /\ os_call.poc_class = "critical"
    /\ os_call.poc_current = <<9700>>
    /\ os_call.poc_velocity = <<100>>
    /\ os_call.result = "Excellent"

\* ------------------------------------------------------------------------
\* Portfolio summary
\*
\* portfolio_data maps a project no. to [data |-> record].  A record
\* carries the fields the aggregation reads:
\*   empty          TRUE when the record is falsy (`not data`)
\*   revenues       the n_ptd and n1_ptd columns of Contract Price,
\*                  Revenues, Cash IN, Cash OUT (whole units) and POC%
\*                  (hundredths)
\*   cost_analysis  [cm1_value_fct_n, cm2_value_fct_n, ec_total_fct_n,
\*                   ic_total_fct_n, total_committed, total_as_sold]
\*   earned_value   the two indices, in hundredths
\*   risk_factors   the findings, each with its severity
\*   work_packages  as calculate_contingency_metrics reads them
\*   malformed      "none", or "risk_factors" when a finding has no
\*                  severity (the aggregation raises when it scores it)
\* Sums are integers; every quotient of the summary is an exact rational in
\* plain units (a percentage of 15 is <<15, 1>>), and the two variances are
\* the pairs calculate_period_variance returns.

\* the result of a run that raised
Raised == [raised |-> TRUE]

\* mutant: the counters of the previous run are carried over
NewMetrics_carried ==
    [ total_contract_value_n |-> 0, total_contract_value_n1 |-> 0,
      total_revenue_n |-> 0, total_revenue_n1 |-> 0,
      total_cash_in_n |-> 0, total_cash_in_n1 |-> 0,
      total_cash_out_n |-> 0, total_cash_out_n1 |-> 0,
      total_cm1_value |-> 0, total_cm2_value |-> 0,
      total_ec |-> 0, total_ic |-> 0,
      total_committed |-> 0, total_as_sold |-> 0,
      valid_projects |->
          IF ps_call.called /\ "project_count" \in DOMAIN ps_call.result
          THEN ps_call.result.project_count ELSE 0,
      weighted_poc_n |-> 0, weighted_poc_n1 |-> 0,
      total_cpi |-> 0, total_spi |-> 0, total_risk_score |-> 0,
      total_contingency_as_sold |-> 0, total_contingency_fct_n |-> 0,
      weighted_poc_for_contingency |-> 0, projects_with_contingency |-> 0 ]

\* the accumulators a run starts from
NewMetrics ==
    [ total_contract_value_n |-> 0, total_contract_value_n1 |-> 0,
      total_revenue_n |-> 0, total_revenue_n1 |-> 0,
      total_cash_in_n |-> 0, total_cash_in_n1 |-> 0,
      total_cash_out_n |-> 0, total_cash_out_n1 |-> 0,
      total_cm1_value |-> 0, total_cm2_value |-> 0,
      total_ec |-> 0, total_ic |-> 0,
      total_committed |-> 0, total_as_sold |-> 0,
      valid_projects |-> 0, weighted_poc_n |-> 0, weighted_poc_n1 |-> 0,
      total_cpi |-> 0, total_spi |-> 0, total_risk_score |-> 0,
      total_contingency_as_sold |-> 0, total_contingency_fct_n |-> 0,
      weighted_poc_for_contingency |-> 0, projects_with_contingency |-> 0 ]

\* mutant: a contract value of 0 is valid too
ValidProject_zero(contract_n) == contract_n >= 0

\* the projects the sums run over
ValidProject(contract_n) == contract_n > 0

\* 2 for each Critical or High finding, 1 for each Medium one
RiskScore(risk_factors) ==
    2 * Cardinality({i \in DOMAIN risk_factors :
                        risk_factors[i].severity \in {"Critical", "High"}})
    + Cardinality({i \in DOMAIN risk_factors :
                      risk_factors[i].severity = "Medium"})

\* one turn of the loop over the projects
AddProject(metrics, data) ==
    LET contract_n == data.revenues.contract_price
        contract_n1 == data.revenues.contract_price_n1
        poc_n == data.revenues.poc_n
        poc_n1 == data.revenues.poc_n1
        cost_analysis == data.cost_analysis
        earned_value == data.earned_value
        contingency_metrics ==
            calculate_contingency_metrics(data.work_packages, poc_n)
        counted == contingency_metrics.has_contingency
    IN  IF data.empty \/ ~ValidProject(contract_n)
        THEN metrics
        ELSE [ metrics EXCEPT
                 !.total_contract_value_n = @ + contract_n,
                 !.total_contract_value_n1 = @ + contract_n1,
                 !.total_revenue_n = @ + data.revenues.revenues_n,
                 !.total_revenue_n1 = @ + data.revenues.revenues_n1,
                 !.total_cash_in_n = @ + data.revenues.cash_in_n,
                 !.total_cash_in_n1 = @ + data.revenues.cash_in_n1,
                 !.total_cash_out_n = @ + data.revenues.cash_out_n,
                 !.total_cash_out_n1 = @ + data.revenues.cash_out_n1,
                 !.weighted_poc_n = @ + poc_n * contract_n,
                 !.weighted_poc_n1 = @ + poc_n1 * contract_n1,
                 !.total_cm1_value = @ + cost_analysis.cm1_value_fct_n,
                 !.total_cm2_value = @ + cost_analysis.cm2_value_fct_n,
                 !.total_ec = @ + cost_analysis.ec_total_fct_n,
                 !.total_ic = @ + cost_analysis.ic_total_fct_n,
                 !.total_committed = @ + cost_analysis.total_committed,
                 !.total_as_sold = @ + cost_analysis.total_as_sold,
                 !.total_cpi = @ + earned_value.cost_performance_index,
                 !.total_spi = @ + earned_value.schedule_performance_index,
                 !.total_risk_score = @ + RiskScore(data.risk_factors),
                 !.total_contingency_as_sold =
                     @ + (IF counted
                          THEN contingency_metrics.contingency_as_sold ELSE 0),
                 !.total_contingency_fct_n =
                     @ + (IF counted
                          THEN contingency_metrics.contingency_fct_n ELSE 0),
                 !.weighted_poc_for_contingency =
                     @ + (IF counted THEN poc_n * contract_n ELSE 0),
                 !.projects_with_contingency = @ + (IF counted THEN 1 ELSE 0),
                 !.valid_projects = @ + 1 ]

RECURSIVE Accumulate(_, _, _)
\* the loop over the projects, from project no. n on
Accumulate(metrics, portfolio_data, n) ==
    IF n > Len(portfolio_data) THEN metrics
    ELSE Accumulate(AddProject(metrics, portfolio_data[n].data),
                    portfolio_data, n + 1)

\* a valid project whose findings cannot be scored makes the loop raise
AggregationRaises(portfolio_data) ==
    \E n \in DOMAIN portfolio_data :
        LET data == portfolio_data[n].data
        IN  /\ ~data.empty
            /\ ValidProject(data.revenues.contract_price)
            /\ data.malformed # "none"

\* None, or the efficiency of the portfolio's contingency
PortfolioContingencyEfficiency(metrics) ==
    IF metrics.projects_with_contingency > 0
       /\ metrics.total_contingency_as_sold > 0
    THEN LET portfolio_contingency_consumed ==
                 metrics.total_contingency_as_sold
                 - metrics.total_contingency_fct_n
             portfolio_contingency_consumed_pct ==
                 Rat(portfolio_contingency_consumed * 100,
                     metrics.total_contingency_as_sold)
             portfolio_avg_poc ==
                 IF metrics.total_contract_value_n > 0
                 THEN Rat(metrics.weighted_poc_for_contingency,
                          metrics.total_contract_value_n * 100)
                 ELSE RInt(0)
         IN  IF RPos(portfolio_avg_poc)
             THEN RMax(RInt(0),
                       RMin(RInt(200),
                            RMul(RSub(RInt(2),
                                      RDiv(portfolio_contingency_consumed_pct,
                                           portfolio_avg_poc)),
                                 RInt(100))))
             ELSE << >>
    ELSE << >>

\* the summary built from the accumulators of at least one valid project
PortfolioSummary(metrics) ==
    LET total_contract_value_n == metrics.total_contract_value_n
        net_cash_flow == metrics.total_cash_in_n - metrics.total_cash_out_n
        net_cash_flow_n1 ==
            metrics.total_cash_in_n1 - metrics.total_cash_out_n1
        weighted_poc_n ==
            IF total_contract_value_n > 0
            THEN Rat(metrics.weighted_poc_n, total_contract_value_n * 100)
            ELSE RInt(0)
        weighted_poc_n1 ==
            IF metrics.total_contract_value_n1 > 0
            THEN Rat(metrics.weighted_poc_n1,
                     metrics.total_contract_value_n1 * 100)
            ELSE RInt(0)
    IN  [ total_contract_value |-> total_contract_value_n,
          total_revenue |-> metrics.total_revenue_n,
          total_cm1 |-> metrics.total_cm1_value,
          total_cm2 |-> metrics.total_cm2_value,
          net_cash_flow |-> net_cash_flow,
          project_count |-> metrics.valid_projects,
          total_contract_value_n1 |-> metrics.total_contract_value_n1,
          total_revenue_n1 |-> metrics.total_revenue_n1,
          net_cash_flow_n1 |-> net_cash_flow_n1,
          contract_variance |->
              calculate_period_variance(total_contract_value_n,
                                        metrics.total_contract_value_n1),
          revenue_variance |->
              calculate_period_variance(metrics.total_revenue_n,
                                        metrics.total_revenue_n1),
          net_cash_variance |->
              calculate_period_variance(net_cash_flow, net_cash_flow_n1),
          avg_cm1_pct |->
              IF total_contract_value_n > 0
              THEN Rat(metrics.total_cm1_value * 100, total_contract_value_n)
              ELSE RInt(0),
          avg_cm2_pct |->
              IF total_contract_value_n > 0
              THEN Rat(metrics.total_cm2_value * 100, total_contract_value_n)
              ELSE RInt(0),
          portfolio_ec_pct |->
              IF total_contract_value_n > 0
              THEN Rat(metrics.total_ec * 100, total_contract_value_n)
              ELSE RInt(0),
          portfolio_ic_pct |->
              IF total_contract_value_n > 0
              THEN Rat(metrics.total_ic * 100, total_contract_value_n)
              ELSE RInt(0),
          portfolio_committed_ratio |->
              IF metrics.total_as_sold > 0
              THEN Rat(metrics.total_committed, metrics.total_as_sold)
              ELSE RInt(0),
          avg_cost_performance_index |->
              Rat(metrics.total_cpi, metrics.valid_projects * 100),
          avg_schedule_performance_index |->
              Rat(metrics.total_spi, metrics.valid_projects * 100),
          weighted_poc_n |-> weighted_poc_n,
          weighted_poc_n1 |-> weighted_poc_n1,
          average_risk_score |->
              Rat(metrics.total_risk_score, metrics.valid_projects),
          total_portfolio_value_at_risk |-> 0,
          cash_flow_efficiency |->
              IF metrics.total_cash_out_n > 0
              THEN Rat(metrics.total_cash_in_n, metrics.total_cash_out_n)
              ELSE RInt(1),
          portfolio_contingency_efficiency |->
              PortfolioContingencyEfficiency(metrics),
          total_contingency_as_sold |-> metrics.total_contingency_as_sold,
          total_contingency_fct_n |-> metrics.total_contingency_fct_n,
          projects_with_contingency |-> metrics.projects_with_contingency,
          \* calculate_poc_velocity on the two quotients
          weighted_poc_velocity |-> RSub(weighted_poc_n, weighted_poc_n1) ]

create_enhanced_portfolio_summary(portfolio_data) ==
    IF portfolio_data = << >> THEN None
    ELSE IF AggregationRaises(portfolio_data) THEN Raised
    ELSE LET metrics == Accumulate(NewMetrics, portfolio_data, 1)
         IN  IF metrics.valid_projects = 0 THEN None
             ELSE PortfolioSummary(metrics)

\* ------------------------------------------------------------------------
\* Specification of the portfolio summary: the dashboard summarises the
\* stored portfolio, up to MaxRuns times

MaxPortfolio == 3
MaxRuns == 2

\* a risk-contingency package with its three amounts
ContingencyPackage(as_sold, fct_n1, fct_n) ==
    [description |-> {"risk", "contingenc"}, as_sold |-> as_sold,
     fct_n1 |-> fct_n1, fct_n |-> fct_n]

\* a record from a few knobs: the two contract values, the two POC, one
\* amount the other money fields follow, the two indices
SummaryRecord(contract, poc, amount, indices, severities, work_packages, malformed) ==
    [ empty |-> FALSE,
      revenues |->
        [ contract_price |-> contract[1], contract_price_n1 |-> contract[2],
          poc_n |-> poc[1], poc_n1 |-> poc[2],
          revenues_n |-> amount, revenues_n1 |-> amount \div 2,
          cash_in_n |-> 2 * amount, cash_in_n1 |-> amount,
          cash_out_n |-> amount, cash_out_n1 |-> amount \div 2 ],
      cost_analysis |->
        [ cm1_value_fct_n |-> amount, cm2_value_fct_n |-> amount \div 2,
          ec_total_fct_n |-> 3 * amount, ic_total_fct_n |-> amount,
          total_committed |-> 2 * amount, total_as_sold |-> 4 * amount ],
      earned_value |->
        [ cost_performance_index |-> indices[1],
          schedule_performance_index |-> indices[2] ],
      risk_factors |-> [i \in DOMAIN severities |-> [severity |-> severities[i]]],
      work_packages |-> work_packages,
      malformed |-> malformed ]

\* a falsy record
EmptyRecord ==
    [ SummaryRecord(<<0, 0>>, <<0, 0>>, 0, <<0, 0>>, << >>, << >>, "none")
        EXCEPT !.empty = TRUE ]

\* three valid projects (with a consumed contingency; at POC 0 with an
\* untouched contingency; without contingency), three with a contract
\* value of 0 (fields set; all fields zero; findings that cannot be scored),
\* a valid one whose findings cannot be scored, and a falsy record
SummaryRecords ==
    { SummaryRecord(<<1, 1>>, <<5000, 4000>>, 2, <<110, 90>>,
                    <<"Critical", "Medium">>,
                    <<ContingencyPackage(10, 9, 8)>>, "none"),
      SummaryRecord(<<3, 2>>, <<0, 0>>, 1, <<100, 100>>, << >>,
                    <<ContingencyPackage(10, 10, 10)>>, "none"),
      SummaryRecord(<<2, 2>>, <<8000, 7000>>, 3, <<80, 120>>, <<"High">>,
                    << >>, "none"),
      SummaryRecord(<<0, 1>>, <<6000, 5000>>, 2, <<120, 120>>,
                    <<"Critical">>, <<ContingencyPackage(10, 5, 2)>>, "none"),
      SummaryRecord(<<0, 0>>, <<0, 0>>, 0, <<0, 0>>, << >>, << >>, "none"),
      SummaryRecord(<<0, 1>>, <<6000, 5000>>, 2, <<120, 120>>,
                    <<"Critical">>, <<ContingencyPackage(10, 5, 2)>>,
                    "risk_factors"),
      SummaryRecord(<<2, 2>>, <<8000, 7000>>, 3, <<80, 120>>, <<"High">>,
                    << >>, "risk_factors"),
      EmptyRecord }

Portfolios ==
    UNION { [1..n -> [data : SummaryRecords]] : n \in 0..MaxPortfolio }

InitSummary ==
    /\ thresholds = DefaultThresholds
    /\ projects_data \in Portfolios
    /\ tl_call = NoCall
    /\ ra_call = NoCall
    /\ NoMetricCalls

Summarise ==
    /\ IF ps_call.called THEN ps_call.runs < MaxRuns ELSE TRUE
    /\ ps_call' =
           [called |-> TRUE,
            runs |-> IF ps_call.called THEN ps_call.runs + 1 ELSE 1,
            result |-> create_enhanced_portfolio_summary(projects_data)]
    /\ UNCHANGED <<thresholds, projects_data, tl_call, ra_call, metric_calls,
                   vm_call, os_call, row_call>>

NextSummary == Summarise

SpecSummary == InitSummary /\ [][NextSummary]_vars

\* ------------------------------------------------------------------------
\* Claims about the portfolio summary

\* the portfolio without project no. n
WithoutProject(portfolio_data, n) ==
    SubSeq(portfolio_data, 1, n - 1)
        \o SubSeq(portfolio_data, n + 1, Len(portfolio_data))

IsSummary(result) == "project_count" \in DOMAIN result

\* C24: a project whose current contract value is 0 contributes to no
\* aggregate: the summary of a portfolio equals, field for field, the
\* summary of the portfolio without that project, and the project never
\* makes the run fail.
C24_ZeroContractFrame ==
    ps_call.called =>
        \A n \in DOMAIN projects_data :
            LET data == projects_data[n].data
            IN  (~data.empty /\ data.revenues.contract_price = 0) =>
                    ps_call.result =
                        create_enhanced_portfolio_summary(
                            WithoutProject(projects_data, n))

\* a valid project next to one with contract value 0 whose money fields,
\* indices and contingency are set and whose findings cannot be scored:
\* the summary counts one project
C24_Witness ==
    /\ ps_call.called
    /\ Len(projects_data) = 2
    /\ projects_data[1].data.revenues.contract_price = 1
    /\ projects_data[2].data.revenues.contract_price = 0
    /\ projects_data[2].data.malformed = "risk_factors"
    /\ IsSummary(ps_call.result)
    /\ ps_call.result.project_count = 1
    /\ ps_call.result.total_contingency_as_sold = 10

\* the valid projects of the portfolio, and those with a contingency
ValidProjects(portfolio_data) ==
    SelectSeq(portfolio_data,
              LAMBDA p : ~p.data.empty /\ p.data.revenues.contract_price > 0)

ContingencyProjects(portfolio_data) ==
    SelectSeq(ValidProjects(portfolio_data),
              LAMBDA p : \E i \in DOMAIN p.data.work_packages :
                             HasBothTokens(p.data.work_packages[i]))

\* sum of POC x contract value / sum of contract value, in plain units
WeightedAveragePOC(projects) ==
    Rat(SumOver(projects,
                [p \in Range(projects) |->
                    p.data.revenues.poc_n * p.data.revenues.contract_price]),
        100 * SumOver(projects,
                      [p \in Range(projects) |->
                          p.data.revenues.contract_price]))

\* the per-project formula: 200 at POC 0, else (2 - consumed/POC) x 100
\* clamped to [0, 200]
EfficiencyFormula(consumed_pct, avg_poc) ==
    IF avg_poc = RInt(0) THEN RInt(200)
    ELSE LET e == RMul(RSub(RInt(2), RDiv(consumed_pct, avg_poc)), RInt(100))
         IN  IF RLe(e, RInt(0)) THEN RInt(0)
             ELSE IF RLe(RInt(200), e) THEN RInt(200) ELSE e

\* C25: the portfolio contingency efficiency is the per-project formula on
\* the summed contingency and the contract-value-weighted average POC: 200
\* when that average is 0, else (2 - consumed_pct/avg_POC) x 100 clamped to
\* [0, 200], avg_POC being a true weighted average (numerator and
\* denominator over the same projects: all valid ones, or all valid ones
\* with a contingency).
C25_PortfolioEfficiency ==
    (/\ ps_call.called
     /\ IsSummary(ps_call.result)
     /\ ps_call.result.projects_with_contingency > 0
     /\ ps_call.result.total_contingency_as_sold > 0) =>
        LET as_sold == ps_call.result.total_contingency_as_sold
            fct_n == ps_call.result.total_contingency_fct_n
            consumed_pct == Rat((as_sold - fct_n) * 100, as_sold)
            efficiency == ps_call.result.portfolio_contingency_efficiency
        IN  \/ efficiency =
                   EfficiencyFormula(
                       consumed_pct,
                       WeightedAveragePOC(ValidProjects(projects_data)))
            \/ efficiency =
                   EfficiencyFormula(
                       consumed_pct,
                       WeightedAveragePOC(ContingencyProjects(projects_data)))

SummaryFields ==
    { "total_contract_value", "total_revenue", "total_cm1", "total_cm2",
      "net_cash_flow", "project_count", "total_contract_value_n1",
      "total_revenue_n1", "net_cash_flow_n1", "contract_variance",
      "revenue_variance", "net_cash_variance", "avg_cm1_pct", "avg_cm2_pct",
      "portfolio_ec_pct", "portfolio_ic_pct", "portfolio_committed_ratio",
      "avg_cost_performance_index", "avg_schedule_performance_index",
      "weighted_poc_n", "weighted_poc_n1", "average_risk_score",
      "total_portfolio_value_at_risk", "cash_flow_efficiency",
      "portfolio_contingency_efficiency", "total_contingency_as_sold",
      "total_contingency_fct_n", "projects_with_contingency",
      "weighted_poc_velocity" }

\* C27: for every set of well-typed project records, the empty set and
\* records whose fields are all zero included, the run returns a complete
\* summary with every field present, never None.
C27_AlwaysSummary ==
    (/\ ps_call.called
     /\ \A n \in DOMAIN projects_data :
            projects_data[n].data.malformed = "none") =>
        /\ ps_call.result # None
        /\ DOMAIN ps_call.result = SummaryFields

\* ------------------------------------------------------------------------
\* Claims about the list of findings

SeverityRank(severity) ==
    CASE severity = "Critical" -> 4
      [] severity = "High" -> 3
      [] severity = "Medium" -> 2
      [] severity = "Low" -> 1

\* C28: the returned list is ranked by severity: no finding comes before a
\* finding of strictly higher severity (Critical > High > Medium > Low).
C28_RankedBySeverity ==
    ra_call.called =>
        \A i \in DOMAIN ra_call.risk_factors :
            \A j \in DOMAIN ra_call.risk_factors :
                i < j =>
                    SeverityRank(ra_call.risk_factors[i].severity)
                        >= SeverityRank(ra_call.risk_factors[j].severity)

\* C29: in every returned list no finding type occurs twice, there are at
\* most 9 findings when the assessment did not fail, every severity is
\* Critical, High, Medium or Low and every impact is High, Medium or Low.
C29_OneFindingPerRule ==
    ra_call.called =>
        LET risk_factors == ra_call.risk_factors
        IN  /\ \A i \in DOMAIN risk_factors :
                   /\ NumberOf(risk_factors, risk_factors[i].type) = 1
                   /\ risk_factors[i].severity
                          \in {"Critical", "High", "Medium", "Low"}
                   /\ risk_factors[i].impact \in {"High", "Medium", "Low"}
            /\ ra_call.project_data.malformed = "none" =>
                   Len(risk_factors) <= 9

\* a well-typed record on which rule 7 reports the insufficient contingency
\* once, although more than 80% of it is consumed, next to other findings
C29_Witness ==
    /\ WellTypedCall
    /\ Len(ra_call.risk_factors) >= 4
    /\ RiskContingencies(ra_call.project_data) # << >>
    /\ QGt(ContingencyConsumption(ra_call.project_data), 8000)
    /\ NumberOf(ra_call.risk_factors, "Contingency Risk") = 1

\* ------------------------------------------------------------------------
\* Claims about the fallback of the estimate at completion

\* the call read a well-typed record with no negative amount
NonNegativeEVCall ==
    /\ WellTypedEVCall
    /\ ev_call.project_data.revenues.contract_price >= 0
    /\ ev_call.project_data.revenues.poc_n >= 0
    /\ ev_call.project_data.revenues.revenues_n >= 0
    /\ ev_call.project_data.cost_analysis.total_actuals >= 0

\* C30 as stated: with contract value, POC%, revenue and actual costs all
\* >= 0 the CPI is >= 0 and the fallback branch of the estimate at
\* completion (CPI <= 0, EAC = contract value) is never taken.
C30_FallbackDeadAsStated ==
    NonNegativeEVCall =>
        /\ RLe(RInt(0), ev_call.result.cost_performance_index)
        /\ RPos(ev_call.result.cost_performance_index)

\* C30: with contract value, POC%, revenue and actual costs all >= 0 the
\* CPI is >= 0; the fallback branch is taken exactly when the CPI is 0,
\* that is when the earned value is 0 while the actual cost is positive,
\* and then the estimate at completion is the contract value; otherwise it
\* is actual cost + (contract value - earned value) / CPI.
C30_FallbackAtZeroCPI ==
    NonNegativeEVCall =>
        LET r == ev_call.result
            cpi == r.cost_performance_index
        IN  /\ RLe(RInt(0), cpi)
            /\ ~RPos(cpi) <=>
                   (r.earned_value = RInt(0) /\ RPos(r.actual_cost))
            /\ ~RPos(cpi) =>
                   r.estimate_at_completion =
                       RInt(ev_call.project_data.revenues.contract_price)
            /\ RPos(cpi) =>
                   r.estimate_at_completion =
                       RAdd(r.actual_cost,
                            RDiv(RSub(r.planned_value, r.earned_value), cpi))

\* a project of contract value 20 at POC 0 without revenue and with actual
\* costs of 10: the CPI is 0 and the estimate is the contract value
C30_Witness ==
    /\ NonNegativeEVCall
    /\ ev_call.project_data.revenues.contract_price = 20
    /\ ev_call.project_data.revenues.poc_n = 0
    /\ ev_call.project_data.cost_analysis.total_actuals = 10
    /\ ev_call.result.cost_performance_index = RInt(0)
    /\ ev_call.result.estimate_at_completion = RInt(20)

=============================================================================
